---- MODULE Spec2Model ----
(***************************************************************************)
(* A model of the Shopify CSV builder: the monolithic Streamlit script     *)
(* (app.py) and the modular pipeline (backend/data_processor.py,           *)
(* frontend/ui_components.py, helpers/utils.py).                           *)
(*                                                                         *)
(* Text is modelled as a sequence of one-character strings, so that        *)
(* parsing, slugging and sorting are computed character by character as    *)
(* the Python code computes them.  Money is modelled in integer cents.     *)
(***************************************************************************)
EXTENDS Integers, Sequences, FiniteSets, TLC

(***************************************************************************)
(* Characters and Python's str methods                                     *)
(***************************************************************************)

\* The characters used by the model's inputs, in code-point order.
Ascii ==
  << " ", "!", "+", ",", "-", ".",
     "0", "1", "2", "3", "4", "5", "6", "7", "8", "9",
     "A", "B", "C", "D", "E", "F", "G", "H", "I", "J", "K", "L", "M",
     "N", "O", "P", "Q", "R", "S", "T", "U", "V", "W", "X", "Y", "Z",
     "_",
     "a", "b", "c", "d", "e", "f", "g", "h", "i", "j", "k", "l", "m",
     "n", "o", "p", "q", "r", "s", "t", "u", "v", "w", "x", "y", "z",
     "|" >>

Chars == {Ascii[i] : i \in DOMAIN Ascii}

Digits == <<"0", "1", "2", "3", "4", "5", "6", "7", "8", "9">>

UpperAlpha ==
  <<"A", "B", "C", "D", "E", "F", "G", "H", "I", "J", "K", "L", "M",
    "N", "O", "P", "Q", "R", "S", "T", "U", "V", "W", "X", "Y", "Z">>

LowerAlpha ==
  <<"a", "b", "c", "d", "e", "f", "g", "h", "i", "j", "k", "l", "m",
    "n", "o", "p", "q", "r", "s", "t", "u", "v", "w", "x", "y", "z">>

\* ord(c): the position of c in code-point order.
Ord == [c \in Chars |-> CHOOSE i \in DOMAIN Ascii : Ascii[i] = c]

IsDigit(c) == \E i \in DOMAIN Digits : Digits[i] = c

DigitVal(c) == (CHOOSE i \in DOMAIN Digits : Digits[i] = c) - 1

IsSpace(c) == c = " " \/ c = "\n"

\* \w of Python's re for the model's characters: letters, digits, underscore.
IsWord(c) ==
  \/ IsDigit(c)
  \/ c = "_"
  \/ \E i \in DOMAIN UpperAlpha : UpperAlpha[i] = c \/ LowerAlpha[i] = c

UpperChar(c) ==
  IF \E i \in DOMAIN LowerAlpha : LowerAlpha[i] = c
  THEN UpperAlpha[CHOOSE i \in DOMAIN LowerAlpha : LowerAlpha[i] = c]
  ELSE c

LowerChar(c) ==
  IF \E i \in DOMAIN UpperAlpha : UpperAlpha[i] = c
  THEN LowerAlpha[CHOOSE i \in DOMAIN UpperAlpha : UpperAlpha[i] = c]
  ELSE c

\* str.upper() and str.lower()
Upper(s) == [i \in DOMAIN s |-> UpperChar(s[i])]

Lower(s) == [i \in DOMAIN s |-> LowerChar(s[i])]

RECURSIVE LStrip(_)
LStrip(s) ==
  IF s = <<>> THEN <<>>
  ELSE IF IsSpace(Head(s)) THEN LStrip(Tail(s)) ELSE s

RECURSIVE RStrip(_)
RStrip(s) ==
  IF s = <<>> THEN <<>>
  ELSE IF IsSpace(s[Len(s)]) THEN RStrip(SubSeq(s, 1, Len(s) - 1)) ELSE s

\* str.strip()
Strip(s) == RStrip(LStrip(s))

\* str.count(c) for a one-character c
Count(s, c) == Cardinality({i \in DOMAIN s : s[i] = c})

\* str.split(c) for a one-character separator: always at least one part.
FirstIndex(s, c) ==
  CHOOSE i \in DOMAIN s : s[i] = c /\ \A j \in 1..(i - 1) : s[j] # c

RECURSIVE Split(_, _)
SplitAt(s, c, k) ==
  <<SubSeq(s, 1, k - 1)>> \o Split(SubSeq(s, k + 1, Len(s)), c)

Split(s, c) ==
  IF \A i \in DOMAIN s : s[i] # c THEN <<s>>
  ELSE SplitAt(s, c, FirstIndex(s, c))

\* c.join(parts)
RECURSIVE Join(_, _)
Join(parts, c) ==
  IF parts = <<>> THEN <<>>
  ELSE IF Len(parts) = 1 THEN parts[1]
  ELSE parts[1] \o <<c>> \o Join(Tail(parts), c)

\* [f(x) for x in seq if keep], for the two list comprehensions over split(",")
NonEmpty(t) == IF t = <<>> THEN <<>> ELSE <<t>>

RECURSIVE StripNonEmpty(_)
StripNonEmpty(parts) ==
  IF parts = <<>> THEN <<>>
  ELSE NonEmpty(Strip(Head(parts))) \o StripNonEmpty(Tail(parts))

\* The value of a string of decimal digits.
RECURSIVE DigitsValue(_)
DigitsValue(s) ==
  IF s = <<>> THEN 0
  ELSE 10 * DigitsValue(SubSeq(s, 1, Len(s) - 1)) + DigitVal(s[Len(s)])

IsAllDigits(s) == s # <<>> /\ \A i \in DOMAIN s : IsDigit(s[i])

\* Lexicographic order on strings by code point: Python's s < t.
RECURSIVE StrLess(_, _)
StrLess(s, t) ==
  IF t = <<>> THEN FALSE
  ELSE IF s = <<>> THEN TRUE
  ELSE IF Ord[Head(s)] < Ord[Head(t)] THEN TRUE
  ELSE IF Ord[Head(s)] > Ord[Head(t)] THEN FALSE
  ELSE StrLess(Tail(s), Tail(t))

StrLeq(s, t) == s = t \/ StrLess(s, t)

\* int(s): Python accepts surrounding whitespace, one sign, and single
\* underscores between digits.  ok = FALSE stands for ValueError.
IntBodyOk(body) ==
  /\ body # <<>>
  /\ \A i \in DOMAIN body :
        \/ IsDigit(body[i])
        \/ /\ body[i] = "_"
           /\ i > 1 /\ i < Len(body)
           /\ IsDigit(body[i - 1]) /\ IsDigit(body[i + 1])

IntOfBody(body, negative) ==
  IF ~IntBodyOk(body) THEN [ok |-> FALSE, v |-> 0]
  ELSE [ok |-> TRUE,
        v  |-> IF negative THEN 0 - DigitsValue(SelectSeq(body, IsDigit))
               ELSE DigitsValue(SelectSeq(body, IsDigit))]

IntOfStripped(s) ==
  IF s # <<>> /\ (Head(s) = "+" \/ Head(s) = "-")
  THEN IntOfBody(Tail(s), Head(s) = "-")
  ELSE IntOfBody(s, FALSE)

IntParse(s0) == IntOfStripped(Strip(s0))

(***************************************************************************)
(* Size Parser and Size Sorter (helpers/utils.py and the copy in app.py)   *)
(***************************************************************************)

CustomLower == <<"c", "u", "s", "t", "o", "m">>

CustomLabel == <<"C", "u", "s", "t", "o", "m">>

\* The branch for exactly one "-" if a right part that is no integer kept
\* the left part as the label.
ParseDashedKeepsLeft(size_string, parts, q) ==
  [size |-> Strip(parts[1]), qty |-> IF q.ok THEN q.v ELSE 0]

\* parse_size_and_quantity: the branch for exactly one "-".
ParseDashed(size_string, parts, q) ==
  IF q.ok THEN [size |-> Strip(parts[1]), qty |-> q.v]
  ELSE [size |-> size_string, qty |-> 0]

ParseStripped(size_string, parts) ==
  IF Lower(size_string) = CustomLower
    THEN [size |-> CustomLabel, qty |-> 0]
  ELSE IF Count(size_string, "-") = 1
    THEN ParseDashed(size_string, parts, IntParse(Strip(parts[2])))
  ELSE [size |-> size_string, qty |-> 0]

SplitDash(size_string) == ParseStripped(size_string, Split(size_string, "-"))

\* parse_size_and_quantity(size_string) -> (size, quantity)
parse_size_and_quantity(size_string0) == SplitDash(Strip(size_string0))

standard_order ==
  << <<"X", "X", "S">>, <<"X", "S">>, <<"S">>, <<"M">>, <<"L">>,
     <<"X", "L">>, <<"X", "X", "L">>, <<"X", "X", "X", "L">>,
     <<"2", "X", "L">>, <<"3", "X", "L">>, <<"4", "X", "L">>,
     <<"5", "X", "L">> >>

StandardUpper == [i \in DOMAIN standard_order |-> Upper(standard_order[i])]

\* The index (from 0) of the first standard size equal to the label ignoring
\* case, or -1 when there is none.
IndexOfUpper(u) ==
  IF \E i \in DOMAIN StandardUpper : u = StandardUpper[i]
  THEN (CHOOSE i \in DOMAIN StandardUpper :
          /\ u = StandardUpper[i]
          /\ \A j \in 1..(i - 1) : u # StandardUpper[j]) - 1
  ELSE 0 - 1

StandardIndex(size) == IndexOfUpper(Upper(size))

\* re.findall(r'\d+', size)[0]: the first maximal run of digits.
RECURSIVE LeadingDigits(_)
LeadingDigits(s) ==
  IF s = <<>> \/ ~IsDigit(Head(s)) THEN <<>>
  ELSE <<Head(s)>> \o LeadingDigits(Tail(s))

RECURSIVE FirstDigitRun(_)
FirstDigitRun(s) ==
  IF s = <<>> THEN <<>>
  ELSE IF IsDigit(Head(s)) THEN LeadingDigits(s)
  ELSE FirstDigitRun(Tail(s))

XDigitsPrefix(u) == Len(u) >= 2 /\ u[1] = "X" /\ IsDigit(u[2])

XDigitsWhole(u) == Len(u) >= 2 /\ u[1] = "X" /\ IsAllDigits(Tail(u))

\* re.match(r'^X\d+', size.upper()): utils.py, no end anchor.
MatchXDigitsPrefix(size) == XDigitsPrefix(Upper(size))

\* re.match(r'^X\d+$', size.upper()): app.py, anchored at the end.
MatchXDigitsWhole(size) == XDigitsWhole(Upper(size))

\* list.sort(key=lambda x: x[0]) on (key, label) pairs: stable.
RECURSIVE InsertByKey(_, _)
InsertByKey(sorted, p) ==
  IF sorted = <<>> THEN <<p>>
  ELSE IF p.k < Head(sorted).k THEN <<p>> \o sorted
  ELSE <<Head(sorted)>> \o InsertByKey(Tail(sorted), p)

RECURSIVE SortByKey(_)
SortByKey(pairs) ==
  IF pairs = <<>> THEN <<>>
  ELSE InsertByKey(SortByKey(SubSeq(pairs, 1, Len(pairs) - 1)), pairs[Len(pairs)])

\* list.sort() on strings.
RECURSIVE InsertStr(_, _)
InsertStr(sorted, s) ==
  IF sorted = <<>> THEN <<s>>
  ELSE IF StrLess(s, Head(sorted)) THEN <<s>> \o sorted
  ELSE <<Head(sorted)>> \o InsertStr(Tail(sorted), s)

RECURSIVE SortStrings(_)
SortStrings(strs) ==
  IF strs = <<>> THEN <<>>
  ELSE InsertStr(SortStrings(SubSeq(strs, 1, Len(strs) - 1)), strs[Len(strs)])

\* "Remove duplicates while preserving order"
AppendNew(seen, x) ==
  IF \E i \in DOMAIN seen : seen[i] = x THEN seen ELSE Append(seen, x)

RECURSIVE Unique(_)
Unique(seq) ==
  IF seq = <<>> THEN <<>>
  ELSE AppendNew(Unique(SubSeq(seq, 1, Len(seq) - 1)), seq[Len(seq)])

\* dict.get(k, d) and d[k] = v on maps kept as functions.
Get(m, k, d) == IF k \in DOMAIN m THEN m[k] ELSE d

Put(m, k, v) == [x \in (DOMAIN m) \cup {k} |-> IF x = k THEN v ELSE m[x]]

\* A quantity map that keeps the quantity of the first token of a label.
RECURSIVE QuantityMapFirstWins(_)
QuantityMapFirstWins(parsed) ==
  IF parsed = <<>> THEN << >>
  ELSE Put(QuantityMapFirstWins(Tail(parsed)), Head(parsed).size,
           Head(parsed).qty)

\* size_quantity_map[actual_size] = quantity, in token order: last one wins.
RECURSIVE QuantityMap(_)
QuantityMap(parsed) ==
  IF parsed = <<>> THEN << >>
  ELSE Put(QuantityMap(SubSeq(parsed, 1, Len(parsed) - 1)),
           parsed[Len(parsed)].size, parsed[Len(parsed)].qty)

RECURSIVE ParseAll(_)
ParseAll(size_strings) ==
  IF size_strings = <<>> THEN <<>>
  ELSE <<parse_size_and_quantity(Head(size_strings))>>
       \o ParseAll(Tail(size_strings))

RECURSIVE Labels(_)
Labels(parsed) ==
  IF parsed = <<>> THEN <<>>
  ELSE <<Head(parsed).size>> \o Labels(Tail(parsed))

\* The X<digits> test: anchored at the end in app.py, a prefix test in
\* utils.py.
MatchXDigits(size, anchored) ==
  IF anchored THEN MatchXDigitsWhole(size) ELSE MatchXDigitsPrefix(size)

\* The three classes of the sorter.
IsStandard(z) == StandardIndex(z) >= 0

IsNumeric(z, anchored) ==
  ~IsStandard(z) /\ (IsAllDigits(z) \/ MatchXDigits(z, anchored))

NumericKey(z) ==
  IF IsAllDigits(z) THEN DigitsValue(z) ELSE DigitsValue(FirstDigitRun(z))

RECURSIVE StandardPairs(_)
StandardPairs(sizes) ==
  IF sizes = <<>> THEN <<>>
  ELSE (IF IsStandard(Head(sizes))
        THEN <<[k |-> StandardIndex(Head(sizes)), v |-> Head(sizes)]>>
        ELSE <<>>) \o StandardPairs(Tail(sizes))

RECURSIVE NumericPairs(_, _)
NumericPairs(sizes, anchored) ==
  IF sizes = <<>> THEN <<>>
  ELSE (IF IsNumeric(Head(sizes), anchored)
        THEN <<[k |-> NumericKey(Head(sizes)), v |-> Head(sizes)]>>
        ELSE <<>>) \o NumericPairs(Tail(sizes), anchored)

RECURSIVE CustomSizes(_, _)
CustomSizes(sizes, anchored) ==
  IF sizes = <<>> THEN <<>>
  ELSE (IF ~IsStandard(Head(sizes)) /\ ~IsNumeric(Head(sizes), anchored)
        THEN <<Head(sizes)>> ELSE <<>>) \o CustomSizes(Tail(sizes), anchored)

RECURSIVE Values(_)
Values(pairs) ==
  IF pairs = <<>> THEN <<>> ELSE <<Head(pairs).v>> \o Values(Tail(pairs))

\* standard sizes by rank, then numeric sizes by value, then the rest in
\* alphabetical order.
SortUnique(unique_sizes, anchored) ==
  Values(SortByKey(StandardPairs(unique_sizes)))
    \o Values(SortByKey(NumericPairs(unique_sizes, anchored)))
    \o SortStrings(CustomSizes(unique_sizes, anchored))

SortParsed(parsed, anchored) ==
  [sorted |-> SortUnique(Unique(Labels(parsed)), anchored),
   qmap   |-> QuantityMap(parsed)]

\* The classification and ordering shared by both copies.
SortSizesCore(sizes_list, anchored) ==
  SortParsed(ParseAll(StripNonEmpty(Split(sizes_list, ","))), anchored)

\* helpers/utils.py: sort_sizes_with_quantities
sort_sizes_with_quantities(sizes_list) ==
  SortSizesCore(sizes_list, FALSE)

\* app.py: sort_sizes_with_quantities
app_sort_sizes_with_quantities(sizes_list) ==
  SortSizesCore(sizes_list, TRUE)

\* app.py: sort_sizes
sort_sizes(sizes_list) == app_sort_sizes_with_quantities(sizes_list).sorted

(***************************************************************************)
(* Cells, numbers and maps                                                 *)
(*                                                                         *)
(* A cell of the uploaded table is blank (pandas NaN), a number (cents)    *)
(* or text.  A float that may be NaN is an integer or NaNv.                *)
(***************************************************************************)

NaN == [t |-> "nan", n |-> 0, s |-> <<>>]

Num(n) == [t |-> "num", n |-> n, s |-> <<>>]

Str(s) == [t |-> "str", n |-> 0, s |-> s]

\* float('nan') among the integers that stand for floats.
NaNv == 0 - 999999

NanText == <<"n", "a", "n">>

UnknownText == <<"U", "n", "k", "n", "o", "w", "n">>

\* dict.get(k, d) and d[k] = v; the empty dict is << >>.
\* round(x, 2) of x = num / den cents, to the nearest cent, ties to even.
RoundDiv(num, den) ==
  LET q == num \div den
      r == num % den
  IN  IF 2 * r < den THEN q
      ELSE IF 2 * r > den THEN q + 1
      ELSE IF q % 2 = 0 THEN q ELSE q + 1

\* str(value) of a text or blank cell (numbers are kept out of text columns).
StrOf(cell) == IF cell.t = "nan" THEN NanText ELSE cell.s

\* float(str(value).strip()) of text: whole units, read as cents.
InCents(r) == [ok |-> r.ok, v |-> 100 * r.v]

FloatParse(s) == InCents(IntParse(s))

\* clean_value(value): text result.
clean_value(cell) ==
  IF \/ cell.t = "nan"
     \/ (cell.t = "str" /\ (cell.s = NanText \/ cell.s = <<"N", "a", "N">>))
     \/ (cell.t = "str" /\ Strip(cell.s) = <<>>)
  THEN <<>>
  ELSE Strip(StrOf(cell))

\* float(str(value).strip()) or the default on ValueError.
FloatOr(r, default_numeric) == IF r.ok THEN r.v ELSE default_numeric

\* clean_value(value, is_numeric=True, default_numeric): cents.
clean_value_numeric(cell, default_numeric) ==
  IF \/ cell.t = "nan"
     \/ (cell.t = "str" /\ (cell.s = NanText \/ cell.s = <<"N", "a", "N">>))
     \/ (cell.t = "str" /\ Strip(cell.s) = <<>>)
  THEN default_numeric
  ELSE IF cell.t = "num" THEN cell.n
  ELSE FloatOr(FloatParse(cell.s), default_numeric)

\* clean_value(x, is_numeric=True) of a float that may be NaN.
clean_float(x) == IF x = NaNv THEN 0 ELSE x

(***************************************************************************)
(* Handle Generator                                                        *)
(***************************************************************************)

\* .str.replace(r"[^\w\s-]", "", regex=True)
RemoveNonSlug(s) ==
  LET Keep(c) == IsWord(c) \/ IsSpace(c) \/ c = "-"
  IN  SelectSeq(s, Keep)

\* .str.replace(r"\s+", "-", regex=True)
RECURSIVE SpacesToHyphen(_)
SpacesToHyphen(s) ==
  IF s = <<>> THEN <<>>
  ELSE IF IsSpace(Head(s))
    THEN <<"-">> \o SpacesToHyphen(LStrip(s))
  ELSE <<Head(s)>> \o SpacesToHyphen(Tail(s))

\* .str.replace(r"-+", "-", regex=True)
RECURSIVE CollapseHyphens(_)
CollapseHyphens(s) ==
  IF Len(s) < 2 THEN s
  ELSE IF s[1] = "-" /\ s[2] = "-" THEN CollapseHyphens(Tail(s))
  ELSE <<Head(s)>> \o CollapseHyphens(Tail(s))

\* .str.strip("-")
RECURSIVE StripHyphens(_)
StripHyphens(s) ==
  IF s = <<>> THEN <<>>
  ELSE IF Head(s) = "-" THEN StripHyphens(Tail(s))
  ELSE IF s[Len(s)] = "-" THEN StripHyphens(SubSeq(s, 1, Len(s) - 1))
  ELSE s

\* "Clean handles for Shopify format"
CleanHandle(raw) ==
  StripHyphens(CollapseHyphens(Lower(SpacesToHyphen(RemoveNonSlug(raw)))))

\* title.astype(str).fillna("").str.strip() + "-" +
\* code.fillna("").astype(str).str.strip(), then cleaned.  The title is made
\* text before the blanks are filled, so a blank title reads "nan".
GenerateHandle(title, code) ==
  CleanHandle(Strip(StrOf(title)) \o <<"-">>
              \o Strip(IF code.t = "nan" THEN <<>> ELSE StrOf(code)))

(***************************************************************************)
(* Variant Explosion Engine                                                *)
(*                                                                         *)
(* A source row is [title, sku, size, colour, price, compare, pub], each a *)
(* cell.  An exploded row keeps the source cells and adds the columns the  *)
(* pipeline adds; VIQ and VCAP are the dataframe columns "Variant          *)
(* Inventory Qty" and "Variant Compare At Price", fvp is                   *)
(* "final_variant_price" (NaNv while the column is absent), src is the     *)
(* index of the source row.                                                *)
(***************************************************************************)

\* float(str(value).strip()) of a cell that is not blank.
CellFloat(cell) ==
  IF cell.t = "num" THEN [ok |-> TRUE, v |-> cell.n]
  ELSE IF cell.t = "str" THEN FloatParse(cell.s)
  ELSE [ok |-> FALSE, v |-> 0]

\* Python's truth value of a cell: 0 and "" are false, NaN is true.
Truthy(cell) ==
  IF cell.t = "num" THEN cell.n # 0
  ELSE IF cell.t = "str" THEN cell.s # <<>>
  ELSE TRUE

\* The compare price read from the upload: the cell when it is truthy, not
\* blank, a number and >= 0; else the fallback.
CompareOr(truthy, r, fallback) ==
  IF truthy /\ r.ok /\ r.v >= 0 THEN r.v ELSE fallback

UploadedCompare(cell, fallback) ==
  CompareOr(Truthy(cell), CellFloat(cell), fallback)

\* The value the raw "Variant Compare At Price" column holds as a float.
RawCompareFloat(cell) ==
  IF cell.t = "num" THEN cell.n
  ELSE IF cell.t = "str" THEN FloatOr(FloatParse(cell.s), NaNv)
  ELSE NaNv

\* [c.strip() for c in str(clean_value(colours_value)).split(",") if c.strip()]
ParseColours(cell) == StripNonEmpty(Split(clean_value(cell), ","))

\* "Create all combinations": for size in sorted_sizes: for color in colors
RECURSIVE WithColours(_, _)
WithColours(size, colors) ==
  IF colors = <<>> THEN <<>>
  ELSE <<[size |-> size, color |-> Head(colors)]>>
       \o WithColours(size, Tail(colors))

RECURSIVE CrossProduct(_, _)
CrossProduct(sizes, colors) ==
  IF sizes = <<>> THEN <<>>
  ELSE WithColours(Head(sizes), colors) \o CrossProduct(Tail(sizes), colors)

\* if not sorted_sizes: sorted_sizes = [""]; size_quantity_map = {"": 0}
OrBlankSizes(r) ==
  IF r.sorted = <<>> THEN [sorted |-> << <<>> >>, qmap |-> (<<>> :> 0)]
  ELSE r

\* if not colors: colors = [""]
OrBlankColours(colors) == IF colors = <<>> THEN << <<>> >> ELSE colors

\* new_row = row.copy() with the columns both pipelines add; Handle is the
\* column the handle generator adds once the rows are exploded.
NewRow(row, src, combo, display_size, extracted_quantity, uploaded_compare_price, handle) ==
  [src |-> src, title |-> row.title, sku |-> row.sku,
   price |-> row.price, compare |-> row.compare, pub |-> row.pub,
   sizes_list |-> combo.size,
   display_size |-> display_size,
   colours_list |-> combo.color,
   extracted_quantity |-> extracted_quantity,
   uploaded_compare_price |-> uploaded_compare_price,
   Handle |-> handle,
   vkey |-> <<>>,
   VIQ |-> 0,
   VCAP |-> RawCompareFloat(row.compare),
   fvp |-> NaNv]

RECURSIVE AppNewRows(_, _, _, _, _, _)
AppNewRows(row, src, combos, qmap, uploaded_compare_price, handle) ==
  IF combos = <<>> THEN <<>>
  ELSE <<NewRow(row, src, Head(combos), Head(combos).size,
                Get(qmap, Head(combos).size, 0), uploaded_compare_price,
                handle)>>
       \o AppNewRows(row, src, Tail(combos), qmap, uploaded_compare_price,
                     handle)

AppExplodeSizes(row, src, r, colors, default_compare_price) ==
  AppNewRows(row, src, CrossProduct(r.sorted, colors), r.qmap,
             UploadedCompare(row.compare, default_compare_price),
             GenerateHandle(row.title, row.sku))

\* app.py: the loop body of process_variants_with_inventory for one row.
ExplodeRowApp(row, src, default_compare_price) ==
  AppExplodeSizes(row, src,
                  OrBlankSizes(app_sort_sizes_with_quantities(
                                 clean_value(row.size))),
                  OrBlankColours(ParseColours(row.colour)),
                  default_compare_price)

\* _extract_quantity without its bulk branch.
ExtractQuantityIgnoresBulk(size, size_quantity_map, config) ==
  IF Get(size_quantity_map, size, 0) > 0
    THEN Get(size_quantity_map, size, 0)
  ELSE config.default_qty

\* data_processor.py: _extract_quantity
extract_quantity(size, size_quantity_map, config) ==
  IF config.bulk_qty_mode THEN config.bulk_qty
  ELSE IF Get(size_quantity_map, size, 0) > 0
    THEN Get(size_quantity_map, size, 0)
  ELSE config.default_qty

\* data_processor.py: _extract_compare_price
extract_compare_price(row, config) ==
  IF config.bulk_compare_price_mode THEN config.bulk_compare_price
  ELSE UploadedCompare(row.compare, config.default_compare_price)

\* "M-5" becomes "M": size.split('-')[0].strip() if size and '-' in size
DisplaySize(size) ==
  IF size # <<>> /\ Count(size, "-") > 0
  THEN Strip(Split(size, "-")[1])
  ELSE size

RECURSIVE DpNewRows(_, _, _, _, _, _, _)
DpNewRows(row, src, combos, qmap, config, uploaded_compare_price, handle) ==
  IF combos = <<>> THEN <<>>
  ELSE <<NewRow(row, src, Head(combos), DisplaySize(Head(combos).size),
                extract_quantity(Head(combos).size, qmap, config),
                uploaded_compare_price, handle)>>
       \o DpNewRows(row, src, Tail(combos), qmap, config,
                    uploaded_compare_price, handle)

DpExplodeSizes(row, src, r, colors, config) ==
  DpNewRows(row, src, CrossProduct(r.sorted, colors), r.qmap, config,
            extract_compare_price(row, config),
            GenerateHandle(row.title, row.sku))

\* data_processor.py: the loop body of _process_variants for one row.
ExplodeRowDP(row, src, config) ==
  DpExplodeSizes(row, src,
                 OrBlankSizes(sort_sizes_with_quantities(
                                clean_value(row.size))),
                 OrBlankColours(ParseColours(row.colour)), config)

\* for _, row in df_raw.iterrows(): ... ; pd.DataFrame(df_exploded_list)
RECURSIVE ExplodeApp(_, _, _)
ExplodeApp(table, n, default_compare_price) ==
  IF n = 0 THEN <<>>
  ELSE ExplodeApp(table, n - 1, default_compare_price)
       \o ExplodeRowApp(table[n], n, default_compare_price)

RECURSIVE ExplodeDP(_, _, _)
ExplodeDP(table, n, config) ==
  IF n = 0 THEN <<>>
  ELSE ExplodeDP(table, n - 1, config) \o ExplodeRowDP(table[n], n, config)

(***************************************************************************)
(* Shared pieces of the two pipelines                                      *)
(***************************************************************************)

\* f"{size}|{color}|{title}"
KeyStr(size, color, title) == size \o <<"|">> \o color \o <<"|">> \o title

\* The string key of a (size, color, title) tuple of unique_variants.
KeyOf(k) == KeyStr(k[1], k[2], k[3])

\* a == b on floats: NaN equals nothing.
FEq(a, b) == a # NaNv /\ b # NaNv /\ a = b

\* round(base_price * (1 + pct / 100), 2); NaN stays NaN.
Surcharged(base_price, pct) ==
  IF base_price = NaNv THEN NaNv
  ELSE RoundDiv(base_price * (100 + pct), 100)

\* base_price * (1 + pct / 100) without rounding, in hundredths of a cent.
SurchargedExact(base_price, pct) == base_price * (100 + pct)

\* The indexes 1..n as a sequence.
Iota(n) == [i \in 1..n |-> i]

\* df.groupby("Handle"): the group keys in ascending order, each with the
\* indexes of its rows in dataframe order.
RECURSIVE HandlesOf(_)
HandlesOf(df) ==
  IF df = <<>> THEN <<>> ELSE <<Head(df).Handle>> \o HandlesOf(Tail(df))

\* The Handles in the order in which the rows first show them: what
\* groupby(sort=False) would iterate.
GroupKeysAsFirstSeen(df) == Unique(HandlesOf(df))

\* df.groupby("Handle") iterates the keys in ascending order.
GroupKeys(df) == SortStrings(Unique(HandlesOf(df)))

GroupRows(df, handle) ==
  LET InGroup(i) == df[i].Handle = handle
  IN  SelectSeq(Iota(Len(df)), InGroup)

\* Keeps the first record of every key.
AppendNewKey(seen, x) ==
  IF \E i \in DOMAIN seen : seen[i].key = x.key THEN seen
  ELSE Append(seen, x)

RECURSIVE UniqueByKey(_)
UniqueByKey(seq) ==
  IF seq = <<>> THEN <<>>
  ELSE AppendNewKey(UniqueByKey(SubSeq(seq, 1, Len(seq) - 1)), seq[Len(seq)])

RECURSIVE Flatten(_)
Flatten(seqs) ==
  IF seqs = <<>> THEN <<>> ELSE Head(seqs) \o Flatten(Tail(seqs))

\* clean_value of a string value (an exploded column such as sizes_list).
clean_str(s) == clean_value(Str(s))

\* out[col].replace(['nan', 'NaN', 'None'], '') on a text column.
FinalText(s) ==
  IF s = NanText \/ s = <<"N", "a", "N">> \/ s = <<"N", "o", "n", "e">>
  THEN <<>> ELSE s

\* float(...) of the variant price cell; the try/except gives 0.
PriceFloat(cell) ==
  IF cell.t = "num" THEN cell.n
  ELSE IF cell.t = "nan" THEN NaNv
  ELSE IF FloatParse(cell.s).ok THEN FloatParse(cell.s).v
  ELSE 0

\* The flag without .lower(): only "active" as written counts.
PublishedFlagAsWritten(cell) ==
  IF clean_value(cell) = <<"a", "c", "t", "i", "v", "e">>
  THEN "TRUE" ELSE "FALSE"

\* "TRUE" if str(clean_value(published)).lower() == "active" else "FALSE"
PublishedFlag(cell) ==
  IF Lower(clean_value(cell)) = <<"a", "c", "t", "i", "v", "e">>
  THEN "TRUE" ELSE "FALSE"

(***************************************************************************)
(* app.py: one run of the script, from the "Start Processing" block to the *)
(* output dataframe.  The session is a record                              *)
(*   [has_df, df, uvp, uv, exq, exc, has_vq, vq, has_vcp, vcp, wprice]     *)
(* for processed_data, unique_variants_processed, unique_variants,         *)
(* extracted_quantities, extracted_compare_prices, variant_quantities and  *)
(* variant_compare_prices (has_* says whether the entry exists); wprice is *)
(* the state of the keyed price inputs of the variant editor.  An event is *)
(* [op, i, q, p]: the button or form this run answers, the variant edited  *)
(* and the values typed.                                                   *)
(***************************************************************************)

\* Lines 724-735: the variants of the rows of one group, under its title.
RECURSIVE AppVariantsOfRows(_, _, _)
AppVariantsOfRows(df, rows, title) ==
  IF rows = <<>> THEN <<>>
  ELSE <<[key |-> <<clean_str(df[Head(rows)].sizes_list),
                    clean_str(df[Head(rows)].colours_list), title>>,
          exq |-> df[Head(rows)].extracted_quantity,
          exc |-> df[Head(rows)].uploaded_compare_price]>>
       \o AppVariantsOfRows(df, Tail(rows), title)

\* Lines 719-722: a group is titled by its first row.
AppVariantsOfGroup(df, rows) ==
  AppVariantsOfRows(df, rows, clean_value(df[rows[1]].title))

RECURSIVE AppVariantsOfGroups(_, _)
AppVariantsOfGroups(df, keys) ==
  IF keys = <<>> THEN <<>>
  ELSE AppVariantsOfGroup(df, GroupRows(df, Head(keys)))
       \o AppVariantsOfGroups(df, Tail(keys))

\* Lines 719-735: the unique variants in groupby order.
AppUniqueVariants(df) == UniqueByKey(AppVariantsOfGroups(df, GroupKeys(df)))

\* Lines 769-779: the price the surcharge is computed from.
FirstPriceOf(df, matching_rows) ==
  IF matching_rows = <<>> THEN 0
  ELSE PriceFloat(df[matching_rows[1]].price)

AppBasePrice(df, k) ==
  LET Match(i) == /\ df[i].sizes_list = k[1]
                  /\ df[i].colours_list = k[2]
                  /\ df[i].title.t = "str"
                  /\ df[i].title.s = k[3]
  IN  FirstPriceOf(df, SelectSeq(Iota(Len(df)), Match))

\* Lines 781-783: one turn of the surcharge loop.
AppSurchargeStep(vcp, k, df, surcharge_rules) ==
  LET size == Strip(Upper(k[1]))
  IN  IF size \in DOMAIN surcharge_rules
      THEN Put(vcp, KeyOf(k),
               Surcharged(AppBasePrice(df, k), surcharge_rules[size]))
      ELSE vcp

\* Lines 764-783
RECURSIVE AppSurchargeLoop(_, _, _, _, _)
AppSurchargeLoop(vcp, uv, n, df, surcharge_rules) ==
  IF n = 0 THEN vcp
  ELSE AppSurchargeStep(AppSurchargeLoop(vcp, uv, n - 1, df, surcharge_rules),
                        uv[n], df, surcharge_rules)

\* Lines 789-792: one turn of the quantity loop.
AppReseedQtyStep(vq, variant_key, extracted_qty, default_qty) ==
  IF /\ extracted_qty > 0
     /\ \/ Get(vq, variant_key, default_qty) = default_qty
        \/ variant_key \notin DOMAIN vq
  THEN Put(vq, variant_key, extracted_qty)
  ELSE vq

\* Lines 785-792
RECURSIVE AppReseedQty(_, _, _, _, _)
AppReseedQty(vq, uv, n, exq, default_qty) ==
  IF n = 0 THEN vq
  ELSE AppReseedQtyStep(AppReseedQty(vq, uv, n - 1, exq, default_qty),
                        KeyOf(uv[n]), Get(exq, uv[n], 0), default_qty)

\* Lines 797-800: one turn of the compare price loop.
AppReseedCompareStep(vcp, variant_key, extracted_compare_price, default_compare_price) ==
  IF /\ extracted_compare_price > 0
     /\ extracted_compare_price # default_compare_price
     /\ \/ FEq(Get(vcp, variant_key, default_compare_price),
                default_compare_price)
        \/ variant_key \notin DOMAIN vcp
  THEN Put(vcp, variant_key, extracted_compare_price)
  ELSE vcp

\* Lines 794-800
RECURSIVE AppReseedCompare(_, _, _, _, _)
AppReseedCompare(vcp, uv, n, exc, default_compare_price) ==
  IF n = 0 THEN vcp
  ELSE AppReseedCompareStep(
         AppReseedCompare(vcp, uv, n - 1, exc, default_compare_price),
         KeyOf(uv[n]), Get(exc, uv[n], default_compare_price),
         default_compare_price)

\* Lines 802-812: store[key] = value for every unique variant.
RECURSIVE SetAll(_, _, _, _)
SetAll(store, uv, n, value) ==
  IF n = 0 THEN store
  ELSE Put(SetAll(store, uv, n - 1, value), KeyOf(uv[n]), value)

\* Lines 885-887 and 930-932: every listed variant is written with the
\* value its input shows: the typed value for variant i, the value the
\* store held when the inputs were drawn for the others.
RECURSIVE WriteInputs(_, _, _, _, _, _, _)
WriteInputs(store, shown, uv, n, listed, i, typed) ==
  IF n = 0 THEN store
  ELSE IF ~listed[n] THEN WriteInputs(store, shown, uv, n - 1, listed, i, typed)
  ELSE Put(WriteInputs(store, shown, uv, n - 1, listed, i, typed),
           KeyOf(uv[n]), IF n = i THEN typed ELSE shown[n])

\* df["_variant_key"]: astype(str) turns a blank title into "nan".
VariantKeyOfRow(row) ==
  KeyStr(Strip(row.sizes_list), Strip(row.colours_list),
         Strip(StrOf(row.title)))

\* Line 1002: the key the first row of a group is looked up with.
EmitKeyOfRow(row) ==
  KeyStr(row.sizes_list, row.colours_list, StrOf(row.title))

\* Lines 970-972: the store takes the dataframe's compare price column.
RECURSIVE AppStoreFromColumn(_, _, _)
AppStoreFromColumn(vcp, df, n) ==
  IF n = 0 THEN vcp
  ELSE Put(AppStoreFromColumn(vcp, df, n - 1),
           VariantKeyOfRow(df[n]), df[n].VCAP)

\* Line 977: .fillna(default_compare_price)
FillNa(v, default) == IF v = NaNv THEN default ELSE v

\* Lines 949-965: the surcharge on the variant price when the size has a
\* rule, else the column's value.
FinalCompareFor(row, size, config) ==
  IF config.enable_surcharge /\ size \in DOMAIN config.surcharge_rules
  THEN Surcharged(clean_value_numeric(row.price, 0),
                  config.surcharge_rules[size])
  ELSE row.VCAP

get_final_compare_price(row, config) ==
  FillNa(FinalCompareFor(row, Strip(Upper(row.sizes_list)), config),
         config.default_compare_price)

\* Lines 942-944 and 974-977 for one row, whose _variant_key is key.
AppMapRow(row, key, vq, config) ==
  [row EXCEPT !.vkey = key,
              !.VIQ  = Get(vq, key, config.default_qty),
              !.VCAP = get_final_compare_price(row, config)]

RECURSIVE AppMapRows(_, _, _)
AppMapRows(df, vq, config) ==
  IF df = <<>> THEN <<>>
  ELSE <<AppMapRow(Head(df), VariantKeyOfRow(Head(df)), vq, config)>>
       \o AppMapRows(Tail(df), vq, config)

\* Lines 936-977: the mapping pass over the dataframe.
AppMapping(S, config) ==
  [S EXCEPT !.vcp = AppStoreFromColumn(S.vcp, S.df, Len(S.df)),
            !.df  = AppMapRows(S.df, S.vq, config)]

\* (size_idx, color) < (size_idx, color)
SortKeyLess(a, b) ==
  \/ a.size_idx < b.size_idx
  \/ a.size_idx = b.size_idx /\ StrLess(a.color, b.color)

\* list.sort(key=...): stable.
InsertAt(sorted, x, pos) ==
  SubSeq(sorted, 1, pos) \o <<x>> \o SubSeq(sorted, pos + 1, Len(sorted))

InsertRow(sorted, x) ==
  InsertAt(sorted, x,
           Cardinality({j \in DOMAIN sorted : ~SortKeyLess(x, sorted[j])}))

RECURSIVE SortRows(_)
SortRows(items) ==
  IF items = <<>> THEN <<>>
  ELSE InsertRow(SortRows(SubSeq(items, 1, Len(items) - 1)),
                 items[Len(items)])

\* size_order_map.get(size, 999) for {size: idx for idx, size in enumerate(..)}
SizeIdx(sorted_sizes, size) ==
  IF \E x \in DOMAIN sorted_sizes : sorted_sizes[x] = size
  THEN (CHOOSE x \in DOMAIN sorted_sizes :
          /\ sorted_sizes[x] = size
          /\ \A y \in DOMAIN sorted_sizes : sorted_sizes[y] = size => y <= x)
       - 1
  ELSE 999

RECURSIVE SizesOf(_, _)
SizesOf(df, rows) ==
  IF rows = <<>> THEN <<>>
  ELSE <<df[Head(rows)].sizes_list>> \o SizesOf(df, Tail(rows))

RECURSIVE SortItems(_, _, _)
SortItems(df, rows, sorted_sizes) ==
  IF rows = <<>> THEN <<>>
  ELSE <<[size_idx |-> SizeIdx(sorted_sizes, df[Head(rows)].sizes_list),
          color |-> df[Head(rows)].colours_list,
          row |-> Head(rows)]>>
       \o SortItems(df, Tail(rows), sorted_sizes)

RECURSIVE RowsOf(_)
RowsOf(items) ==
  IF items = <<>> THEN <<>> ELSE <<Head(items).row>> \o RowsOf(Tail(items))

\* ','.join(group['sizes_list'].unique())
SizesString(df, rows) == Join(Unique(SizesOf(df, rows)), ",")

\* The group as the dataframe holds it, not sorted.
SortGroupUnsorted(df, rows, sorted_sizes) == rows

\* Lines 989-998 (app.py) and _sort_variants_in_group (data_processor.py):
\* the row indexes of a group in emission order, given the sorted sizes of
\* the group.
SortGroup(df, rows, sorted_sizes) ==
  RowsOf(SortRows(SortItems(df, rows, sorted_sizes)))

\* An output row keeps the fields of the Shopify CSV the checks read, the
\* dataframe row it was built from (row) and whether it leads its group.
\* price comes in hundredths of a cent: Price is its whole cents, PriceRem
\* what is left over (an unrounded surcharge).
OutRow(handle, title, vendor, published, o1n, o1v, o2n, o2v, sku, qty, compare, price, row, first) ==
  [Handle |-> FinalText(handle), Title |-> FinalText(title),
   Vendor |-> vendor, Published |-> published,
   Option1Name |-> o1n, Option1Value |-> FinalText(o1v),
   Option2Name |-> o2n, Option2Value |-> FinalText(o2v),
   SKU |-> FinalText(sku), Qty |-> qty, Compare |-> compare,
   Price |-> price \div 100, PriceRem |-> price % 100,
   row |-> row, first |-> first]

VendorName == "YourBrandName"

\* Lines 1001-1065: the first row of a group takes its quantity and
\* compare price from the store when the store has its key (line 1002).
AppFirstRow(S, handle, row, idx, key, has_colors) ==
  OutRow(clean_str(handle), clean_value(row.title), VendorName,
         PublishedFlag(row.pub), "Size", clean_str(row.sizes_list),
         IF has_colors THEN "Color" ELSE "", clean_str(row.colours_list),
         clean_value(row.sku),
         IF key \in DOMAIN S.vq THEN S.vq[key] ELSE row.VIQ,
         clean_float(IF key \in DOMAIN S.vcp THEN S.vcp[key] ELSE row.VCAP),
         100 * clean_value_numeric(row.price, 0), idx, TRUE)

\* Lines 1069-1121: the other rows are built from group_list, the rows as
\* the dataframe holds them.
AppVariantRow(handle, row, idx) ==
  OutRow(clean_str(handle), <<>>, "", "", "", clean_str(row.sizes_list), "",
         clean_str(row.colours_list), clean_value(row.sku), row.VIQ,
         clean_float(row.VCAP), 100 * clean_value_numeric(row.price, 0),
         idx, FALSE)

RECURSIVE AppVariantRows(_, _, _)
AppVariantRows(df, handle, order) ==
  IF order = <<>> THEN <<>>
  ELSE <<AppVariantRow(handle, df[Head(order)], Head(order))>>
       \o AppVariantRows(df, handle, Tail(order))

\* Line 1014
HasColours(df, order) ==
  \E j \in DOMAIN order : clean_str(df[order[j]].colours_list) # <<>>

AppEmitOrdered(S, handle, order) ==
  <<AppFirstRow(S, handle, S.df[order[1]], order[1],
                EmitKeyOfRow(S.df[order[1]]), HasColours(S.df, order))>>
    \o AppVariantRows(S.df, handle, Tail(order))

AppEmitRows(S, handle, rows) ==
  AppEmitOrdered(S, handle,
                 SortGroup(S.df, rows, sort_sizes(SizesString(S.df, rows))))

\* Lines 981-1121: the rows of one Handle group.
AppEmitGroup(S, handle) == AppEmitRows(S, handle, GroupRows(S.df, handle))

RECURSIVE AppEmitGroups(_, _)
AppEmitGroups(S, keys) ==
  IF keys = <<>> THEN <<>>
  ELSE AppEmitGroup(S, Head(keys)) \o AppEmitGroups(S, Tail(keys))

\* Lines 979-1132
AppEmit(S) == AppEmitGroups(S, GroupKeys(S.df))

\* Lines 640-707: "Start Processing" explodes the upload and empties both
\* stores; any other run takes the dataframe of the session.
AppLoad(S, rows, config, process_button) ==
  IF process_button
  THEN [S EXCEPT !.has_df = TRUE,
                 !.df = ExplodeApp(rows, Len(rows),
                                   config.default_compare_price),
                 !.has_vq = TRUE, !.vq = << >>,
                 !.has_vcp = TRUE, !.vcp = << >>]
  ELSE S

RECURSIVE KeysOf(_)
KeysOf(found) ==
  IF found = <<>> THEN <<>> ELSE <<Head(found).key>> \o KeysOf(Tail(found))

\* extracted_quantities / extracted_compare_prices, keyed by the tuple.
RECURSIVE ExtractedOf(_, _)
ExtractedOf(found, field) ==
  IF found = <<>> THEN << >>
  ELSE Put(ExtractedOf(SubSeq(found, 1, Len(found) - 1), field),
           found[Len(found)].key, found[Len(found)][field])

\* Lines 712-748: the variants are listed once per session.
AppRemember(S, found) ==
  IF S.uvp THEN S
  ELSE [S EXCEPT !.uvp = TRUE, !.uv = KeysOf(found),
                 !.exq = ExtractedOf(found, "exq"),
                 !.exc = ExtractedOf(found, "exc")]

AppListVariants(S) == AppRemember(S, AppUniqueVariants(S.df))

\* Lines 750-755
RECURSIVE AppSeedQty(_, _, _, _)
AppSeedQty(uv, n, exq, default_qty) ==
  IF n = 0 THEN << >>
  ELSE Put(AppSeedQty(uv, n - 1, exq, default_qty), KeyOf(uv[n]),
           IF Get(exq, uv[n], 0) > 0 THEN Get(exq, uv[n], 0)
           ELSE default_qty)

\* Lines 757-762
RECURSIVE AppSeedCompare(_, _, _, _)
AppSeedCompare(uv, n, exc, default_compare_price) ==
  IF n = 0 THEN << >>
  ELSE Put(AppSeedCompare(uv, n - 1, exc, default_compare_price),
           KeyOf(uv[n]), Get(exc, uv[n], default_compare_price))

\* Lines 750-762: a store the session lacks is seeded.
AppSeed(S, config) ==
  [S EXCEPT
     !.has_vq = TRUE,
     !.vq = IF S.has_vq THEN S.vq
            ELSE AppSeedQty(S.uv, Len(S.uv), S.exq, config.default_qty),
     !.has_vcp = TRUE,
     !.vcp = IF S.has_vcp THEN S.vcp
             ELSE AppSeedCompare(S.uv, Len(S.uv), S.exc,
                                 config.default_compare_price)]

\* Lines 802-806 and 808-812
Bulk(mode, store, uv, value) ==
  IF mode THEN SetAll(store, uv, Len(uv), value) ELSE store

\* Lines 764-783
Surcharge(vcp, S, config) ==
  IF config.enable_surcharge
  THEN AppSurchargeLoop(vcp, S.uv, Len(S.uv), S.df, config.surcharge_rules)
  ELSE vcp

\* Lines 764-812: surcharge, the two re-seeding loops, the two bulk loops.
AppStores(S, config) ==
  [S EXCEPT
     !.vq  = Bulk(config.bulk_qty_mode,
                  AppReseedQty(S.vq, S.uv, Len(S.uv), S.exq,
                               config.default_qty),
                  S.uv, config.bulk_qty),
     !.vcp = Bulk(config.bulk_compare_price_mode,
                  AppReseedCompare(Surcharge(S.vcp, S, config), S.uv,
                                   Len(S.uv), S.exc,
                                   config.default_compare_price),
                  S.uv, config.bulk_compare_price)]

\* Lines 640-812: the run up to the manual editing interface.
AppFront(S, rows, config, process_button) ==
  AppStores(AppSeed(AppListVariants(AppLoad(S, rows, config,
                                            process_button)),
                    config),
            config)

\* Lines 843-844 and 900-901: what the inputs show.
RECURSIVE Shown(_, _, _)
Shown(store, uv, default) ==
  IF uv = <<>> THEN <<>>
  ELSE <<Get(store, KeyOf(Head(uv)), default)>>
       \o Shown(store, Tail(uv), default)

\* Lines 816-821 and 893: the inputs of one form are the variants of its
\* product; the spreadsheet lists every variant.
RECURSIVE Listed(_, _, _)
Listed(uv, all, title) ==
  IF uv = <<>> THEN <<>>
  ELSE <<all \/ Head(uv)[3] = title>> \o Listed(Tail(uv), all, title)

\* Lines 843-887 and 900-932: the write of a submitted form (the variants
\* of one product) or of the spreadsheet (every variant).
AppWriteListed(S, config, ev, listed) ==
  [S EXCEPT
     !.vq  = WriteInputs(S.vq, Shown(S.vq, S.uv, config.default_qty),
                         S.uv, Len(S.uv), listed, ev.i, ev.q),
     !.vcp = WriteInputs(S.vcp,
                         Shown(S.vcp, S.uv, config.default_compare_price),
                         S.uv, Len(S.uv), listed, ev.i, ev.p)]

AppWrite(S, config, ev) ==
  AppWriteListed(S, config, ev, Listed(S.uv, ev.op = "sheet", S.uv[ev.i][3]))

(***************************************************************************)
(* backend/data_processor.py and frontend/ui_components.py.  The session   *)
(* record is the same; exq and exc are keyed by the string key here.       *)
(***************************************************************************)

\* initialize_variants, lines 26-41: one entry per dataframe row, titled by
\* the row itself.
RECURSIVE DpVariantsOfRows(_, _)
DpVariantsOfRows(df, n) ==
  IF n = 0 THEN <<>>
  ELSE AppendNewKey(DpVariantsOfRows(df, n - 1),
                    [key |-> <<clean_str(df[n].sizes_list),
                               clean_str(df[n].colours_list),
                               clean_value(df[n].title)>>,
                     exq |-> df[n].extracted_quantity,
                     exc |-> df[n].uploaded_compare_price])

DpVariants(df) == DpVariantsOfRows(df, Len(df))

\* variant_key_str is written only for a new tuple: the first tuple of a
\* string key that comes later in the list has the last word.
RECURSIVE DpExtracted(_, _)
DpExtracted(found, field) ==
  IF found = <<>> THEN << >>
  ELSE Put(DpExtracted(SubSeq(found, 1, Len(found) - 1), field),
           KeyOf(found[Len(found)].key), found[Len(found)][field])

DpQtyOr(extracted_qty, default_qty) ==
  IF extracted_qty > 0 THEN extracted_qty ELSE default_qty

\* initialize_variants, lines 47-55
RECURSIVE DpSeedQty(_, _, _, _)
DpSeedQty(uv, n, exq, default_qty) ==
  IF n = 0 THEN << >>
  ELSE Put(DpSeedQty(uv, n - 1, exq, default_qty), KeyOf(uv[n]),
           DpQtyOr(Get(exq, KeyOf(uv[n]), 0), default_qty))

\* initialize_variants, lines 57-63
RECURSIVE DpSeedCompare(_, _, _, _)
DpSeedCompare(uv, n, exc, default_compare_price) ==
  IF n = 0 THEN << >>
  ELSE Put(DpSeedCompare(uv, n - 1, exc, default_compare_price),
           KeyOf(uv[n]), Get(exc, KeyOf(uv[n]), default_compare_price))

\* _apply_size_surcharges, lines 204-221: final_variant_price of one row,
\* in hundredths of a cent (the product is not rounded).
SurchargePrice(base_price, size, surcharge_rules) ==
  IF base_price <= 0 THEN 100 * base_price
  ELSE IF size \in DOMAIN surcharge_rules
    THEN SurchargedExact(base_price, surcharge_rules[size])
  ELSE 100 * base_price

apply_surcharge(row, config) ==
  SurchargePrice(clean_value_numeric(row.price, 0),
                 Upper(Strip(row.display_size)), config.surcharge_rules)

RECURSIVE SurchargeRows(_, _)
SurchargeRows(df, config) ==
  IF df = <<>> THEN <<>>
  ELSE <<[Head(df) EXCEPT !.fvp = apply_surcharge(Head(df), config)]>>
       \o SurchargeRows(Tail(df), config)

\* _apply_size_surcharges
apply_size_surcharges(df, config) ==
  IF ~config.enable_surcharge THEN df ELSE SurchargeRows(df, config)

\* _apply_variant_mappings, lines 360-390, for one row.
DpMapRow(row, key, config, has_vq, vq, has_vcp, vcp) ==
  [row EXCEPT
     !.vkey = key,
     !.VIQ  = IF config.bulk_qty_mode THEN config.bulk_qty
              ELSE IF has_vq THEN Get(vq, key, config.default_qty)
              ELSE row.extracted_quantity,
     !.VCAP = clean_float(
              IF config.bulk_compare_price_mode
                THEN config.bulk_compare_price
              ELSE IF has_vcp
                THEN Get(vcp, key, config.default_compare_price)
              ELSE row.uploaded_compare_price)]

\* _apply_variant_mappings (the second definition, which is the one bound).
RECURSIVE apply_variant_mappings(_, _, _, _, _, _)
apply_variant_mappings(df, config, has_vq, vq, has_vcp, vcp) ==
  IF df = <<>> THEN <<>>
  ELSE <<DpMapRow(Head(df), VariantKeyOfRow(Head(df)), config,
                  has_vq, vq, has_vcp, vcp)>>
       \o apply_variant_mappings(Tail(df), config, has_vq, vq, has_vcp, vcp)

DpSorter(sizes_list) == sort_sizes_with_quantities(sizes_list).sorted

MainRow(row, idx, display_size, colour) ==
  OutRow(clean_str(row.Handle), clean_value(row.title), VendorName,
         PublishedFlag(row.pub),
         IF display_size # <<>> THEN "Size" ELSE "", display_size,
         IF colour # <<>> THEN "Color" ELSE "", colour,
         clean_value(row.sku), row.VIQ, clean_float(row.VCAP),
         IF row.fvp # NaNv THEN row.fvp
         ELSE 100 * clean_value_numeric(row.price, 0),
         idx, TRUE)

\* _create_main_product_row
create_main_product_row(row, idx) ==
  MainRow(row, idx, clean_str(row.display_size), clean_str(row.colours_list))

\* _create_variant_row (the second definition, which is the one bound).
create_variant_row(row, handle, idx) ==
  OutRow(clean_str(handle), <<>>, "", "", "", clean_str(row.sizes_list), "",
         clean_str(row.colours_list), clean_value(row.sku), row.VIQ,
         clean_float(row.VCAP), 100 * clean_value_numeric(row.price, 0),
         idx, FALSE)

RECURSIVE DpVariantRows(_, _, _)
DpVariantRows(df, handle, order) ==
  IF order = <<>> THEN <<>>
  ELSE <<create_variant_row(df[Head(order)], handle, Head(order))>>
       \o DpVariantRows(df, handle, Tail(order))

DpEmitOrdered(df, handle, order) ==
  <<create_main_product_row(df[order[1]], order[1])>>
    \o DpVariantRows(df, handle, Tail(order))

DpEmitRows(df, handle, rows) ==
  DpEmitOrdered(df, handle,
                SortGroup(df, rows, DpSorter(SizesString(df, rows))))

\* generate_shopify_csv, lines 82-91
DpEmitGroup(df, handle) == DpEmitRows(df, handle, GroupRows(df, handle))

RECURSIVE DpEmitGroups(_, _)
DpEmitGroups(df, keys) ==
  IF keys = <<>> THEN <<>>
  ELSE DpEmitGroup(df, Head(keys)) \o DpEmitGroups(df, Tail(keys))

\* generate_shopify_csv, lines 79-104
DpEmit(df) == DpEmitGroups(df, GroupKeys(df))

\* get_column_value(row, column_mapping, 'published', ''): the cell of the
\* mapped column, the default '' when no column is mapped to the field.
get_published(row, pub_col) == IF pub_col THEN row.pub ELSE Str(<<>>)

\* The rows of the upload as the column mapping reads them.
MappedRows(up) ==
  [i \in DOMAIN up.rows |->
     [up.rows[i] EXCEPT !.pub = get_published(up.rows[i], up.pub_col)]]

\* Line 970-972 raises when the upload has no column spelled exactly
\* "Variant Compare At Price" (KeyError) or when a cell of it is text that
\* float() rejects (ValueError).
AppMappingRaises(up) ==
  \/ ~up.vcap_col
  \/ \E i \in DOMAIN up.rows :
       up.rows[i].compare.t = "str" /\ ~FloatParse(up.rows[i].compare.s).ok

\* The form's write followed by the bulk loops of lines 802-812: what the
\* run would do if the order of the two were the other way round.
AppEditThenBulk(S, up, config, ev) ==
  IF ev.op \in {"form", "sheet"}
  THEN AppFront(AppWrite(S, config, ev), MappedRows(up), config, FALSE)
  ELSE S

\* Lines 815-934: a submitted form writes the store; "Apply All
\* Spreadsheet Changes" writes the store and calls st.rerun(), which runs
\* the script again from the top before anything is assembled.
AppEdit(S, up, config, ev) ==
  IF ev.op = "form" THEN AppWrite(S, config, ev)
  ELSE IF ev.op = "sheet"
    THEN AppFront(AppWrite(S, config, ev), MappedRows(up), config, FALSE)
  ELSE S

\* Lines 936-1140
AppBack(S, up, config) ==
  IF AppMappingRaises(up)
  THEN [session |-> S, status |-> "error", out |-> << >>]
  ELSE [session |-> AppMapping(S, config), status |-> "ok",
        out |-> AppEmit(AppMapping(S, config))]

\* One run of the script for an event.
AppRun(S, up, config, ev) ==
  AppBack(AppEdit(AppFront(S, MappedRows(up), config, ev.op = "process"),
                  up, config, ev),
          up, config)

(***************************************************************************)
(* Inputs: uploads, sidebar settings and what the user types               *)
(***************************************************************************)

Active == Str(<<"a", "c", "t", "i", "v", "e">>)

\* Title "A", code "K1", sizes "M-5,XL", colours "R,B", 100.00, 150.00
RowA ==
  [title |-> Str(<<"A">>), sku |-> Str(<<"K", "1">>),
   size |-> Str(<<"M", "-", "5", ",", "X", "L">>),
   colour |-> Str(<<"R", ",", "B">>),
   price |-> Num(10000), compare |-> Num(15000), pub |-> Active]

\* Title "B", no code, size "xl", colours "R,R", 9.99, no compare price
RowB ==
  [title |-> Str(<<"B">>), sku |-> NaN,
   size |-> Str(<<"x", "l">>), colour |-> Str(<<"R", ",", "R">>),
   price |-> Num(999), compare |-> NaN, pub |-> Active]

\* Every cell blank but the price; compare price 0
RowBlank ==
  [title |-> NaN, sku |-> NaN, size |-> NaN, colour |-> NaN,
   price |-> Num(10000), compare |-> Num(0), pub |-> NaN]

\* Title "!!", no code, sizes "S,M-3", no colour, published " ACTIVE "
RowPunct ==
  [title |-> Str(<<"!", "!">>), sku |-> NaN,
   size |-> Str(<<"S", ",", "M", "-", "3">>), colour |-> NaN,
   price |-> Num(999), compare |-> NaN,
   pub |-> Str(<<" ", "A", "C", "T", "I", "V", "E", " ">>)]

\* A second line of product "A": size "S", colour "R", 120.00, published
\* "Draft"
RowA2 ==
  [title |-> Str(<<"A">>), sku |-> Str(<<"K", "1">>),
   size |-> Str(<<"S">>), colour |-> Str(<<"R">>),
   price |-> Num(12000), compare |-> Num(15000),
   pub |-> Str(<<"D", "r", "a", "f", "t">>)]

\* Title "Cool Shirt!!", code "ABC 123", size "S", no colour, 9.99
RowCool ==
  [title |-> Str(<<"C", "o", "o", "l", " ", "S", "h", "i", "r", "t", "!", "!">>),
   sku |-> Str(<<"A", "B", "C", " ", "1", "2", "3">>),
   size |-> Str(<<"S">>), colour |-> NaN,
   price |-> Num(999), compare |-> NaN, pub |-> Str(<<"A", "c", "t", "i", "v", "e">>)]

\* No title, code "K2", no size, no colour, no price
RowNoPrice ==
  [title |-> NaN, sku |-> Str(<<"K", "2">>), size |-> NaN, colour |-> NaN,
   price |-> NaN, compare |-> NaN, pub |-> NaN]

\* A line of product "A" with no size: colour "R", 100.00
RowNoSize ==
  [title |-> Str(<<"A">>), sku |-> Str(<<"K", "1">>), size |-> NaN,
   colour |-> Str(<<"R">>), price |-> Num(10000), compare |-> NaN,
   pub |-> Active]

\* Product "A" again in another file: size "M-7", colour "R", 100.00,
\* 160.00
RowA7 ==
  [title |-> Str(<<"A">>), sku |-> Str(<<"K", "1">>),
   size |-> Str(<<"M", "-", "7">>), colour |-> Str(<<"R">>),
   price |-> Num(10000), compare |-> Num(16000), pub |-> Active]

\* Another product titled "A": code "K9", size "M-3", colour "R", 100.00,
\* 160.00
RowTwin ==
  [title |-> Str(<<"A">>), sku |-> Str(<<"K", "9">>),
   size |-> Str(<<"M", "-", "3">>), colour |-> Str(<<"R">>),
   price |-> Num(10000), compare |-> Num(16000), pub |-> Active]

\* The rows the session runs draw on, and the wider set the one-shot
\* assembly runs draw on.
SourceRows == {RowA, RowB, RowBlank}

WideRows ==
  {RowA, RowB, RowBlank, RowPunct, RowA2, RowCool, RowNoPrice, RowNoSize}

MaxRows == 2

TablesOf(rows) == UNION {[1..n -> rows] : n \in 1..MaxRows}

\* vcap_col: the upload has a column spelled "Variant Compare At Price";
\* pub_col: a column of it is mapped to the published field.
Uploads ==
  [rows : TablesOf(SourceRows), vcap_col : {TRUE}, pub_col : {TRUE}]
    \cup [rows : {<<r>> : r \in SourceRows}, vcap_col : {FALSE}, pub_col : {TRUE}]

WideUploads ==
  [rows : TablesOf(WideRows), vcap_col : {TRUE}, pub_col : BOOLEAN]

\* Files with two products of one title.
TwinUploads ==
  [rows : TablesOf({RowA7, RowTwin}), vcap_col : {TRUE}, pub_col : {TRUE}]

\* The files of a session in which a second file is uploaded.
Reuploads ==
  [rows : TablesOf({RowA, RowA7}), vcap_col : {TRUE}, pub_col : {TRUE}]

XL == <<"X", "L">>

\* The sidebar: fallback quantity 10, bulk quantity 5, default compare
\* price 0.00, bulk compare price 200.00, one surcharge rule XL +10%.
Configs ==
  {[default_qty |-> 10, bulk_qty_mode |-> bq, bulk_qty |-> 5,
    default_compare_price |-> 0, bulk_compare_price_mode |-> bc,
    bulk_compare_price |-> 20000, enable_surcharge |-> es,
    surcharge_rules |-> IF es THEN (XL :> 10) ELSE << >>] :
   bq \in BOOLEAN, bc \in BOOLEAN, es \in BOOLEAN}

\* The sidebar as the script first draws it.
DefaultConfig ==
  [default_qty |-> 10, bulk_qty_mode |-> FALSE, bulk_qty |-> 5,
   default_compare_price |-> 0, bulk_compare_price_mode |-> FALSE,
   bulk_compare_price |-> 20000, enable_surcharge |-> FALSE,
   surcharge_rules |-> << >>]

QtyEdits == {9, 10}

PriceEdits == {12500}

EmptySession ==
  [has_df |-> FALSE, df |-> << >>, uvp |-> FALSE, uv |-> << >>,
   exq |-> << >>, exc |-> << >>, has_vq |-> FALSE, vq |-> << >>,
   has_vcp |-> FALSE, vcp |-> << >>, wprice |-> << >>]

NoEvent == [op |-> "none", i |-> 0, q |-> 0, p |-> 0]

(***************************************************************************)
(* The state machine.  impl says which program runs: "app" is app.py,      *)
(* "dp" is DataProcessor with the widgets of UIComponents.  Every action   *)
(* is one run of the Streamlit script (app.py) or one call of a method     *)
(* (DataProcessor, UIComponents).                                          *)
(***************************************************************************)

VARIABLES
  impl,     \* which program
  upload,   \* the uploaded table
  config,   \* the sidebar settings
  session,  \* st.session_state
  out,      \* the assembled output of the last run, << >> if none
  status,   \* "idle", "ok" or "error": how the last run ended
  last,     \* the event the last run answered
  prev,     \* the session the last run started from
  passes,   \* runs so far
  call,     \* a helper called on its own: the function, its argument, its result
  ai        \* the description batch: its rows, the rows done, the results

vars ==
  <<impl, upload, config, session, out, status, last, prev, passes, call, ai>>

\* No helper has been called on its own.
NoCall == [fn |-> "none", arg |-> << >>, ret |-> << >>]

\* No description batch is running.
NoBatch ==
  [prog |-> "none", enabled |-> FALSE, mode |-> "default", texts |-> << >>,
   calls |-> << >>, descs |-> << >>, tags |-> << >>, escaped |-> FALSE]

\* Runs of the app.py script per session, and calls of the modular
\* program's methods per session.
MaxPasses == 3

MaxCalls == 4

Init ==
  /\ impl \in {"app", "dp"}
  /\ upload \in Uploads
  /\ config \in Configs
  /\ session = EmptySession
  /\ out = << >>
  /\ status = "idle"
  /\ last = NoEvent
  /\ prev = EmptySession
  /\ passes = 0
  /\ call = NoCall
  /\ ai = NoBatch

\* What a run of app.py that ended as r leaves behind.
AppDone(r, cfg, ev) ==
  /\ config' = cfg
  /\ session' = r.session
  /\ out' = r.out
  /\ status' = r.status
  /\ last' = ev
  /\ prev' = session
  /\ passes' = passes + 1
  /\ UNCHANGED <<impl, upload, call, ai>>

\* The effect of one run of app.py.
AppStep(cfg, ev) ==
  /\ passes < MaxPasses
  /\ AppDone(AppRun(session, upload, cfg, ev), cfg, ev)

\* One widget changes per interaction: the settings that differ from c in
\* one switch.
Toggles(c) ==
  {cfg \in Configs :
     \/ /\ cfg.bulk_qty_mode # c.bulk_qty_mode
        /\ cfg.bulk_compare_price_mode = c.bulk_compare_price_mode
        /\ cfg.enable_surcharge = c.enable_surcharge
     \/ /\ cfg.bulk_qty_mode = c.bulk_qty_mode
        /\ cfg.bulk_compare_price_mode # c.bulk_compare_price_mode
        /\ cfg.enable_surcharge = c.enable_surcharge
     \/ /\ cfg.bulk_qty_mode = c.bulk_qty_mode
        /\ cfg.bulk_compare_price_mode = c.bulk_compare_price_mode
        /\ cfg.enable_surcharge # c.enable_surcharge}

\* "Start Processing" is clicked.
AppProcess ==
  /\ impl = "app"
  /\ AppStep(config, [NoEvent EXCEPT !.op = "process"])

\* A sidebar setting is changed: the script runs again.  Before anything
\* was processed the run ends at line 637.
AppConfigChange ==
  /\ impl = "app"
  /\ \E cfg \in Toggles(config) :
       IF session.has_df
       THEN AppStep(cfg, [NoEvent EXCEPT !.op = "config"])
       ELSE /\ passes < MaxPasses
            /\ config' = cfg
            /\ last' = [NoEvent EXCEPT !.op = "config"]
            /\ prev' = session
            /\ passes' = passes + 1
            /\ UNCHANGED <<impl, upload, session, out, status, call, ai>>

\* Any other interaction re-runs the script on the processed data.
AppRerun ==
  /\ impl = "app"
  /\ session.has_df
  /\ AppStep(config, [NoEvent EXCEPT !.op = "rerun"])

\* The form of one product is submitted with variant i edited to (q, p).
AppFormSubmit ==
  /\ impl = "app"
  /\ session.has_df
  /\ ~config.bulk_qty_mode \/ ~config.bulk_compare_price_mode
  /\ \E i \in DOMAIN session.uv, q \in QtyEdits, p \in PriceEdits :
       AppStep(config, [op |-> "form", i |-> i, q |-> q, p |-> p])

\* "Apply All Spreadsheet Changes" with row i edited to (q, p).
AppSheetApply ==
  /\ impl = "app"
  /\ session.has_df
  /\ ~config.bulk_qty_mode \/ ~config.bulk_compare_price_mode
  /\ \E i \in DOMAIN session.uv, q \in QtyEdits, p \in PriceEdits :
       AppStep(config, [op |-> "sheet", i |-> i, q |-> q, p |-> p])

\* Line 452: the bulk compare price input mixes an int min_value with float
\* value and step, which Streamlit rejects; a build that accepts it lets
\* the other actions run.
AppSidebarError ==
  /\ impl = "app"
  /\ config.bulk_compare_price_mode
  /\ passes < MaxPasses
  /\ status' = "error"
  /\ out' = << >>
  /\ last' = [NoEvent EXCEPT !.op = "sidebar_error"]
  /\ prev' = session
  /\ passes' = passes + 1
  /\ UNCHANGED <<impl, upload, config, session, call, ai>>

\* "Process Another File": the session is cleared and the script re-runs.
\* The modular program keeps its settings in the session, so they go too.
Reset ==
  /\ session.has_df
  /\ passes < (IF impl = "dp" THEN MaxCalls ELSE MaxPasses)
  /\ session' = EmptySession
  /\ out' = << >>
  /\ status' = "idle"
  /\ last' = [NoEvent EXCEPT !.op = "reset"]
  /\ prev' = session
  /\ passes' = passes + 1
  /\ config' = IF impl = "dp" THEN DefaultConfig ELSE config
  /\ UNCHANGED <<impl, upload, call, ai>>

\* What a call of a DataProcessor or UIComponents method leaves behind.
DpStep(S, o, st, ev) ==
  /\ passes < MaxCalls
  /\ session' = S
  /\ out' = o
  /\ status' = st
  /\ last' = ev
  /\ prev' = session
  /\ passes' = passes + 1
  /\ UNCHANGED <<impl, upload, config, call, ai>>

\* process_data(df_raw, column_mapping, config); the dataframe is kept.
DpProcess ==
  /\ impl = "dp"
  /\ DpStep([session EXCEPT
               !.has_df = TRUE,
               !.df = ExplodeDP(MappedRows(upload), Len(upload.rows), config)],
            out, status, [NoEvent EXCEPT !.op = "process"])

\* initialize_variants, lines 43-63: the stores are seeded only when the
\* session has none.
DpRemember(S, uv, exq, exc, cfg) ==
  [S EXCEPT
     !.uvp = TRUE, !.uv = uv, !.exq = exq, !.exc = exc,
     !.has_vq = TRUE,
     !.vq = IF S.has_vq THEN S.vq
            ELSE DpSeedQty(uv, Len(uv), exq, cfg.default_qty),
     !.has_vcp = TRUE,
     !.vcp = IF S.has_vcp THEN S.vcp
             ELSE DpSeedCompare(uv, Len(uv), exc,
                                cfg.default_compare_price)]

initialize_variants(S, found, cfg) ==
  DpRemember(S, KeysOf(found), DpExtracted(found, "exq"),
             DpExtracted(found, "exc"), cfg)

\* initialize_variants(df, column_mapping, config)
DpInitialize ==
  /\ impl = "dp"
  /\ session.has_df
  /\ DpStep(initialize_variants(session, DpVariants(session.df), config),
            out, status, [NoEvent EXCEPT !.op = "initialize"])

\* _apply_bulk_quantities(bulk_qty)
DpBulkQuantities ==
  /\ impl = "dp"
  /\ session.uvp /\ session.has_vq
  /\ DpStep([session EXCEPT
               !.vq = SetAll(session.vq, session.uv, Len(session.uv),
                             config.bulk_qty)],
            out, status, [NoEvent EXCEPT !.op = "bulk_qty"])

\* _apply_bulk_compare_prices(bulk_price)
DpBulkComparePrices ==
  /\ impl = "dp"
  /\ session.uvp /\ session.has_vcp
  /\ DpStep([session EXCEPT
               !.vcp = SetAll(session.vcp, session.uv, Len(session.uv),
                              config.bulk_compare_price)],
            out, status, [NoEvent EXCEPT !.op = "bulk_compare"])

\* render_variant_editor, lines 893-901: the quantity input shows the
\* store's value, else the extracted quantity.
RECURSIVE ShownQty(_, _, _)
ShownQty(vq, exq, uv) ==
  IF uv = <<>> THEN <<>>
  ELSE <<Get(vq, KeyOf(Head(uv)), Get(exq, KeyOf(Head(uv)), 0))>>
       \o ShownQty(vq, exq, Tail(uv))

\* render_variant_editor, lines 905-913: the price input shows what was
\* typed into it before, else the extracted price of variants_data, else
\* 0.0.
RECURSIVE ShownPrice(_, _, _, _)
ShownPrice(wprice, exc, uv, with_prices) ==
  IF uv = <<>> THEN <<>>
  ELSE <<Get(wprice, KeyOf(Head(uv)),
             IF with_prices THEN Get(exc, KeyOf(Head(uv)), 0) ELSE 0)>>
       \o ShownPrice(wprice, exc, Tail(uv), with_prices)

\* render_variant_editor: every input writes its value to the store.
render_variant_editor(S, ev, with_prices) ==
  [S EXCEPT
     !.vq = WriteInputs(S.vq, ShownQty(S.vq, S.exq, S.uv), S.uv,
                        Len(S.uv), Listed(S.uv, TRUE, <<>>), ev.i, ev.q),
     !.vcp = WriteInputs(S.vcp,
                         ShownPrice(S.wprice, S.exc, S.uv, with_prices),
                         S.uv, Len(S.uv), Listed(S.uv, TRUE, <<>>), ev.i, ev.p),
     !.wprice = Put(S.wprice, KeyOf(S.uv[ev.i]), ev.p)]

\* render_variant_editor(variants_data) with variant i typed to (q, p).
\* with_prices says whether variants_data carries
\* 'extracted_compare_prices'.
DpVariantEditor ==
  /\ impl = "dp"
  /\ session.uv # << >> /\ session.has_vq /\ session.has_vcp
  /\ \E i \in DOMAIN session.uv, q \in QtyEdits, p \in PriceEdits,
        with_prices \in BOOLEAN :
       DpStep(render_variant_editor(
                session, [op |-> "edit", i |-> i, q |-> q, p |-> p],
                with_prices),
              out, status, [op |-> "edit", i |-> i, q |-> q, p |-> p])

\* generate_shopify_csv, lines 73-77
DpMapped(S, cfg) ==
  apply_variant_mappings(apply_size_surcharges(S.df, cfg), cfg,
                         S.has_vq, S.vq, S.has_vcp, S.vcp)

DpGenerated(df) ==
  DpStep([session EXCEPT !.df = df], DpEmit(df), "ok",
         [NoEvent EXCEPT !.op = "generate"])

\* generate_shopify_csv(df, column_mapping, config)
DpGenerate ==
  /\ impl = "dp"
  /\ session.has_df
  /\ DpGenerated(DpMapped(session, config))

\* render_sidebar_config: a setting is changed.
DpConfigChange ==
  /\ impl = "dp"
  /\ passes < MaxCalls
  /\ \E cfg \in Toggles(config) : config' = cfg
  /\ last' = [NoEvent EXCEPT !.op = "config"]
  /\ prev' = session
  /\ passes' = passes + 1
  /\ UNCHANGED <<impl, upload, session, out, status, call, ai>>

Next ==
  \/ AppProcess
  \/ AppConfigChange
  \/ AppRerun
  \/ AppFormSubmit
  \/ AppSheetApply
  \/ AppSidebarError
  \/ Reset
  \/ DpProcess
  \/ DpInitialize
  \/ DpBulkQuantities
  \/ DpBulkComparePrices
  \/ DpVariantEditor
  \/ DpGenerate
  \/ DpConfigChange

Spec == Init /\ [][Next]_vars

\* One-shot runs over the wider uploads: the file is processed and the
\* output assembled, with no editing in between.
\* The settings of the one-shot runs: also with a default compare price
\* of 50.00.
AssembleConfigs ==
  Configs \cup {[c EXCEPT !.default_compare_price = 5000] : c \in Configs}

InitAssemble ==
  /\ impl \in {"app", "dp"}
  /\ upload \in WideUploads
  /\ config \in AssembleConfigs
  /\ session = EmptySession
  /\ out = << >>
  /\ status = "idle"
  /\ last = NoEvent
  /\ prev = EmptySession
  /\ passes = 0
  /\ call = NoCall
  /\ ai = NoBatch

NextAssemble ==
  \/ AppProcess
  \/ DpProcess
  \/ DpInitialize
  \/ DpGenerate

SpecAssemble == InitAssemble /\ [][NextAssemble]_vars

(***************************************************************************)
(* A second file in the same session                                       *)
(***************************************************************************)

InitReupload ==
  /\ impl \in {"app", "dp"}
  /\ upload \in Reuploads
  /\ config \in Configs
  /\ session = EmptySession
  /\ out = << >>
  /\ status = "idle"
  /\ last = NoEvent
  /\ prev = EmptySession
  /\ passes = 0
  /\ call = NoCall
  /\ ai = NoBatch

\* The same columns, other rows.
OtherFiles(up) ==
  {u \in Reuploads :
     u # up /\ u.vcap_col = up.vcap_col /\ u.pub_col = up.pub_col}

\* What a run of app.py that ended as r on the new file u leaves behind.
AppUploaded(r, u) ==
  /\ upload' = u
  /\ session' = r.session
  /\ out' = r.out
  /\ status' = r.status
  /\ last' = [NoEvent EXCEPT !.op = "upload"]
  /\ prev' = session
  /\ passes' = passes + 1
  /\ UNCHANGED <<impl, config, call, ai>>

\* Another file is put into the uploader of app.py: df_raw is read from
\* it and the script runs again on the processed data of the session
\* (line 637), the button not clicked.
AppUpload ==
  /\ impl = "app"
  /\ session.has_df
  /\ passes < MaxPasses
  /\ \E u \in OtherFiles(upload) :
       AppUploaded(AppRun(session, u, config,
                          [NoEvent EXCEPT !.op = "rerun"]), u)

\* The caller of DataProcessor has another df_raw for process_data; no
\* method is called.
DpUpload ==
  /\ impl = "dp"
  /\ session.has_df
  /\ \E u \in OtherFiles(upload) : upload' = u
  /\ last' = [NoEvent EXCEPT !.op = "upload"]
  /\ prev' = session
  /\ UNCHANGED <<impl, config, session, out, status, passes, call, ai>>

NextReupload ==
  \/ AppProcess
  \/ AppUpload
  \/ DpProcess
  \/ DpInitialize
  \/ DpUpload

SpecReupload == InitReupload /\ [][NextReupload]_vars

(***************************************************************************)
(* Editing a file that holds two products of one title                     *)
(***************************************************************************)

InitTwins ==
  /\ impl \in {"app", "dp"}
  /\ upload \in TwinUploads
  /\ config \in Configs
  /\ session = EmptySession
  /\ out = << >>
  /\ status = "idle"
  /\ last = NoEvent
  /\ prev = EmptySession
  /\ passes = 0
  /\ call = NoCall
  /\ ai = NoBatch

NextTwins ==
  \/ AppProcess
  \/ AppFormSubmit
  \/ AppSheetApply
  \/ DpProcess
  \/ DpInitialize
  \/ DpVariantEditor

SpecTwins == InitTwins /\ [][NextTwins]_vars

(***************************************************************************)
(* The Size Parser and the Size Sorter called on their own                 *)
(***************************************************************************)

\* "XL-16,S-4,Custom,M-8,10,X20"
ExampleSizes ==
  <<"X", "L", "-", "1", "6", ",", "S", "-", "4", ",",
    "C", "u", "s", "t", "o", "m", ",", "M", "-", "8", ",",
    "1", "0", ",", "X", "2", "0">>

\* Size tokens as they come in a size cell: "XL-16", "S-4", "Custom",
\* " L - 7", "10", "X20", "X2Y", "A-B-C", "M - x", " cUSTOM", "9", "x5",
\* "S", "xl", "X10A", "custom-5".
SizeTokens ==
  { <<"X", "L", "-", "1", "6">>, <<"S", "-", "4">>, <<"S">>, <<"x", "l">>,
    <<"X", "1", "0", "A">>, <<"c", "u", "s", "t", "o", "m", "-", "5">>,
    <<"C", "u", "s", "t", "o", "m">>, <<" ", "L", " ", "-", " ", "7">>,
    <<"1", "0">>, <<"X", "2", "0">>, <<"X", "2", "Y">>,
    <<"A", "-", "B", "-", "C">>, <<"M", " ", "-", " ", "x">>,
    <<" ", "c", "U", "S", "T", "O", "M">>, <<"9">>, <<"x", "5">> }

MaxTokens == 3

\* The comma-separated lists of one to MaxTokens tokens, and the example.
SizeLists ==
  {ExampleSizes}
    \cup {Join(ts, ",") : ts \in UNION {[1..n -> SizeTokens] : n \in 1..MaxTokens}}

InitSizes ==
  /\ impl = "dp"
  /\ upload = [rows |-> << >>, vcap_col |-> FALSE, pub_col |-> FALSE]
  /\ config = DefaultConfig
  /\ session = EmptySession
  /\ out = << >>
  /\ status = "idle"
  /\ last = NoEvent
  /\ prev = EmptySession
  /\ passes = 0
  /\ call \in [fn : {"none"}, arg : SizeLists, ret : {<< >>}]
  /\ ai = NoBatch

\* What a call of a helper leaves behind.
Returned(fn, ret) ==
  /\ call.fn = "none"
  /\ call' = [call EXCEPT !.fn = fn, !.ret = ret]
  /\ UNCHANGED <<impl, upload, config, session, out, status, last, prev, passes, ai>>

\* parse_size_and_quantity(size_string): the argument is any text
ParseSizeAndQuantity ==
  Returned("parse_size_and_quantity", parse_size_and_quantity(call.arg))

\* helpers/utils.py: sort_sizes_with_quantities(sizes_list)
SortSizesWithQuantities ==
  Returned("sort_sizes_with_quantities", sort_sizes_with_quantities(call.arg))

\* app.py: sort_sizes_with_quantities(sizes_list)
AppSortSizesWithQuantities ==
  Returned("app.sort_sizes_with_quantities",
           app_sort_sizes_with_quantities(call.arg))

NextSizes ==
  \/ ParseSizeAndQuantity
  \/ SortSizesWithQuantities
  \/ AppSortSizesWithQuantities

SpecSizes == InitSizes /\ [][NextSizes]_vars

(***************************************************************************)
(* The description batch: the loop of app.py lines 652-675 and             *)
(* AIService.process_descriptions_batch.  The AI call answers with a text  *)
(* or raises; which of the two is not the program's choice.                *)
(***************************************************************************)

\* "", "Soft", "Soft. Warm"
Descriptions ==
  { <<>>, <<"S", "o", "f", "t">>,
    <<"S", "o", "f", "t", ".", " ", "W", "a", "r", "m">> }

\* response.text: "", "t", "ab", "N\nt"
Responses == { <<>>, <<"t">>, <<"a", "b">>, <<"N", "\n", "t">> }

\* What the AI call of one row does: it is not made, it raises, or it
\* answers.
NotCalled == [kind |-> "none", text |-> <<>>]

Raises == [kind |-> "raise", text |-> <<>>]

Answers == [kind : {"answer"}, text : Responses]

Outcomes(called) == IF called THEN {Raises} \cup Answers ELSE {NotCalled}

\* (desc, tags) of a row, or an exception that leaves the loop.
Pair(desc, tags) == [raised |-> FALSE, desc |-> desc, tags |-> tags]

Escapes == [raised |-> TRUE, desc |-> <<>>, tags |-> <<>>]

\* text.split(".", 1)[0].strip()
FirstSentence(text) == Strip(Split(text, ".")[1])

\* result.split('\n', 1)
SplitLines(result) ==
  IF Count(result, "\n") = 0 THEN <<result>>
  ELSE <<SubSeq(result, 1, FirstIndex(result, "\n") - 1),
         SubSeq(result, FirstIndex(result, "\n") + 1, Len(result))>>

\* try: response = model.generate_content(prompt);
\*      return (response.text or "").strip()
\* except Exception: return ""
TagsOrBlank(outcome) ==
  IF outcome.kind = "answer" THEN Strip(outcome.text) ELSE <<>>

\* app.py: tags_only(text)
tags_only(enabled, text, outcome) ==
  IF ~enabled THEN <<>> ELSE TagsOrBlank(outcome)

\* desc, tags = <a str>: two characters unpack, any other length raises
\* ValueError.
UnpackStr(r) ==
  IF Len(r) = 2 THEN Pair(<<r[1]>>, <<r[2]>>) ELSE Escapes

\* app.py: desc, tags = refine_and_tag(original).  With the AI on the
\* function returns one str, the stripped answer or "" when the call raised.
refine_and_tag(enabled, text, outcome) ==
  IF ~enabled THEN Pair(text, <<>>) ELSE UnpackStr(TagsOrBlank(outcome))

\* app.py lines 659-668: the three modes.
AppRow(mode, enabled, original, outcome) ==
  IF mode = "default" THEN Pair(original, <<>>)
  ELSE IF mode = "simple"
    THEN Pair(FirstSentence(original),
              tags_only(enabled, FirstSentence(original), outcome))
  ELSE refine_and_tag(enabled, original, outcome)

AppCalls(mode, enabled, original) == enabled /\ mode # "default"

\* AIService._generate_tags_only(text)
generate_tags_only(enabled, text, outcome) ==
  IF ~enabled \/ text = <<>> THEN <<>> ELSE TagsOrBlank(outcome)

\* AIService._process_simple_mode(text)
process_simple_mode(enabled, text, outcome) ==
  IF ~enabled \/ text = <<>> THEN Pair(text, <<>>)
  ELSE IF FirstSentence(text) = <<>>
    THEN Pair(text, generate_tags_only(enabled, text, outcome))
  ELSE Pair(FirstSentence(text),
            generate_tags_only(enabled, FirstSentence(text), outcome))

\* AIService._refine_and_tag, lines 132-139: the answer is split.
SplitAnswer(result, lines) ==
  IF Len(lines) >= 2 THEN Pair(Strip(lines[1]), Strip(lines[2]))
  ELSE Pair(result, <<>>)

\* AIService._refine_and_tag(text)
svc_refine_and_tag(enabled, text, outcome) ==
  IF ~enabled \/ text = <<>> THEN Pair(text, <<>>)
  ELSE IF outcome.kind = "raise" THEN Pair(text, <<>>)
  ELSE SplitAnswer(Strip(outcome.text), SplitLines(Strip(outcome.text)))

\* AIService._process_full_ai_mode(text)
process_full_ai_mode(enabled, text, outcome) ==
  IF ~enabled \/ text = <<>> THEN Pair(text, <<>>)
  ELSE svc_refine_and_tag(enabled, text, outcome)

\* process_descriptions_batch lines 50-55: the three modes.
SvcRow(mode, enabled, original, outcome) ==
  IF mode = "simple" THEN process_simple_mode(enabled, original, outcome)
  ELSE IF mode = "full" THEN process_full_ai_mode(enabled, original, outcome)
  ELSE Pair(original, <<>>)

SvcCalls(mode, enabled, original) ==
  enabled /\ mode # "default" /\ original # <<>>

MaxBatch == 2

Batches == UNION {[1..n -> Descriptions] : n \in 1..MaxBatch}

\* A mode other than the default can be chosen in app.py only with the AI
\* on (the radio is disabled without it); AIService takes any mode.
InitAI ==
  /\ impl = "dp"
  /\ upload = [rows |-> << >>, vcap_col |-> FALSE, pub_col |-> FALSE]
  /\ config = DefaultConfig
  /\ session = EmptySession
  /\ out = << >>
  /\ status = "idle"
  /\ last = NoEvent
  /\ prev = EmptySession
  /\ passes = 0
  /\ call = NoCall
  /\ ai \in {b \in [prog : {"app", "svc"}, enabled : BOOLEAN,
                    mode : {"default", "simple", "full"}, texts : Batches,
                    calls : {<< >>}, descs : {<< >>}, tags : {<< >>},
                    escaped : {FALSE}] :
               b.prog = "app" /\ ~b.enabled => b.mode = "default"}

\* The description the next row starts from:
\* clean_value(get_column_value(row, column_mapping, 'description', ""))
Original == clean_str(ai.texts[Len(ai.calls) + 1])

\* What one turn of the loop leaves behind: the results grow by the row's
\* pair, or the exception leaves the loop and the script.
RowDone(outcome, r) ==
  /\ ai' = [ai EXCEPT !.calls = Append(@, outcome.kind),
                      !.descs = IF r.raised THEN @ ELSE Append(@, r.desc),
                      !.tags = IF r.raised THEN @ ELSE Append(@, r.tags),
                      !.escaped = r.raised]
  /\ UNCHANGED <<impl, upload, config, session, out, status, last, prev, passes, call>>

\* app.py lines 652-675: one turn of the loop.
AppAiRow ==
  /\ ai.prog = "app" /\ ~ai.escaped /\ Len(ai.calls) < Len(ai.texts)
  /\ \E outcome \in Outcomes(AppCalls(ai.mode, ai.enabled, Original)) :
       RowDone(outcome, AppRow(ai.mode, ai.enabled, Original, outcome))

\* process_descriptions_batch lines 39-62: one turn of the loop.
SvcAiRow ==
  /\ ai.prog = "svc" /\ ~ai.escaped /\ Len(ai.calls) < Len(ai.texts)
  /\ \E outcome \in Outcomes(SvcCalls(ai.mode, ai.enabled, Original)) :
       RowDone(outcome, SvcRow(ai.mode, ai.enabled, Original, outcome))

NextAI ==
  \/ AppAiRow
  \/ SvcAiRow

SpecAI == InitAI /\ [][NextAI]_vars

(***************************************************************************)
(* Column Mapper (helpers/utils.py)                                        *)
(*                                                                         *)
(* A dataframe is a sequence of columns [name, values]: the column's name  *)
(* and its sample, the non-null values as text.  A mapping is a dict from  *)
(* standard names to column names.  A similarity or a score is a fraction  *)
(* [num, den]; the fractions the code computes have denominators small     *)
(* enough for its float comparisons to be the comparisons of fractions.    *)
(***************************************************************************)

\* normalize_column_names: the synonyms of each standard name, in the
\* order of the dict.
column_variants ==
  <<
   [name |-> "title",
     variants |->
       <<<<"t", "i", "t", "l", "e">>,
         <<"p", "r", "o", "d", "u", "c", "t", "_", "t", "i", "t", "l", "e">>,
         <<"p", "r", "o", "d", "u", "c", "t", " ", "t", "i", "t", "l", "e">>,
         <<"n", "a", "m", "e">>,
         <<"p", "r", "o", "d", "u", "c", "t", "_", "n", "a", "m", "e">>,
         <<"p", "r", "o", "d", "u", "c", "t", " ", "n", "a", "m", "e">>>>],
   [name |-> "description",
     variants |->
       <<<<"d", "e", "s", "c", "r", "i", "p", "t", "i", "o", "n">>,
         <<"p", "r", "o", "d", "u", "c", "t", "_", "d", "e", "s", "c", "r", "i", "p", "t", "i", "o", "n">>,
         <<"p", "r", "o", "d", "u", "c", "t", " ", "d", "e", "s", "c", "r", "i", "p", "t", "i", "o", "n">>,
         <<"d", "e", "s", "c">>>>],
   [name |-> "colour",
     variants |->
       <<<<"c", "o", "l", "o", "u", "r">>, <<"c", "o", "l", "o", "r">>,
         <<"c", "o", "l", "o", "r", "s">>,
         <<"c", "o", "l", "o", "u", "r", "s">>>>],
   [name |-> "product code",
     variants |->
       <<<<"p", "r", "o", "d", "u", "c", "t", " ", "c", "o", "d", "e">>,
         <<"p", "r", "o", "d", "u", "c", "t", "_", "c", "o", "d", "e">>,
         <<"s", "k", "u">>,
         <<"p", "r", "o", "d", "u", "c", "t", "_", "s", "k", "u">>,
         <<"i", "t", "e", "m", "_", "c", "o", "d", "e">>,
         <<"i", "t", "e", "m", " ", "c", "o", "d", "e">>>>],
   [name |-> "product category",
     variants |->
       <<<<"p", "r", "o", "d", "u", "c", "t", " ", "c", "a", "t", "e", "g", "o", "r", "y">>,
         <<"p", "r", "o", "d", "u", "c", "t", "_", "c", "a", "t", "e", "g", "o", "r", "y">>,
         <<"c", "a", "t", "e", "g", "o", "r", "y">>,
         <<"p", "r", "o", "d", "u", "c", "t", "_", "t", "y", "p", "e">>>>],
   [name |-> "type",
     variants |->
       <<<<"t", "y", "p", "e">>,
         <<"p", "r", "o", "d", "u", "c", "t", "_", "t", "y", "p", "e">>,
         <<"p", "r", "o", "d", "u", "c", "t", " ", "t", "y", "p", "e">>>>],
   [name |-> "published",
     variants |->
       <<<<"p", "u", "b", "l", "i", "s", "h", "e", "d">>,
         <<"s", "t", "a", "t", "u", "s">>,
         <<"a", "c", "t", "i", "v", "e">>,
         <<"p", "u", "b", "l", "i", "s", "h", "_", "s", "t", "a", "t", "u", "s">>,
         <<"p", "u", "b", "l", "i", "s", "h", " ", "s", "t", "a", "t", "u", "s">>>>],
   [name |-> "size",
     variants |->
       <<<<"s", "i", "z", "e">>, <<"s", "i", "z", "e", "s">>,
         <<"v", "a", "r", "i", "a", "n", "t", "_", "s", "i", "z", "e">>,
         <<"v", "a", "r", "i", "a", "n", "t", " ", "s", "i", "z", "e">>>>],
   [name |-> "no of components",
     variants |->
       <<<<"n", "o", " ", "o", "f", " ", "c", "o", "m", "p", "o", "n", "e", "n", "t", "s">>,
         <<"n", "o", "_", "o", "f", "_", "c", "o", "m", "p", "o", "n", "e", "n", "t", "s">>,
         <<"c", "o", "m", "p", "o", "n", "e", "n", "t", "s">>,
         <<"n", "u", "m", "b", "e", "r", "_", "o", "f", "_", "c", "o", "m", "p", "o", "n", "e", "n", "t", "s">>,
         <<"c", "o", "m", "p", "o", "n", "e", "n", "t", "_", "c", "o", "u", "n", "t">>>>],
   [name |-> "fabric",
     variants |->
       <<<<"f", "a", "b", "r", "i", "c">>,
         <<"m", "a", "t", "e", "r", "i", "a", "l">>,
         <<"f", "a", "b", "r", "i", "c", "_", "t", "y", "p", "e">>,
         <<"f", "a", "b", "r", "i", "c", " ", "t", "y", "p", "e">>>>],
   [name |-> "variant price",
     variants |->
       <<<<"v", "a", "r", "i", "a", "n", "t", " ", "p", "r", "i", "c", "e">>,
         <<"v", "a", "r", "i", "a", "n", "t", "_", "p", "r", "i", "c", "e">>,
         <<"p", "r", "i", "c", "e">>,
         <<"u", "n", "i", "t", "_", "p", "r", "i", "c", "e">>,
         <<"u", "n", "i", "t", " ", "p", "r", "i", "c", "e">>,
         <<"c", "o", "s", "t">>>>],
   [name |-> "variant compare at price",
     variants |->
       <<<<"v", "a", "r", "i", "a", "n", "t", " ", "c", "o", "m", "p", "a", "r", "e", " ", "a", "t", " ", "p", "r", "i", "c", "e">>,
         <<"v", "a", "r", "i", "a", "n", "t", "_", "c", "o", "m", "p", "a", "r", "e", "_", "a", "t", "_", "p", "r", "i", "c", "e">>,
         <<"c", "o", "m", "p", "a", "r", "e", "_", "p", "r", "i", "c", "e">>,
         <<"c", "o", "m", "p", "a", "r", "e", " ", "p", "r", "i", "c", "e">>,
         <<"c", "o", "m", "p", "a", "r", "e", " ", "a", "t", " ", "p", "r", "i", "c", "e">>,
         <<"c", "o", "m", "p", "a", "r", "e", "_", "a", "t", "_", "p", "r", "i", "c", "e">>,
         <<"o", "r", "i", "g", "i", "n", "a", "l", "_", "p", "r", "i", "c", "e">>,
         <<"o", "r", "i", "g", "i", "n", "a", "l", " ", "p", "r", "i", "c", "e">>>>],
   [name |-> "celebs name",
     variants |->
       <<<<"c", "e", "l", "e", "b", "s", " ", "n", "a", "m", "e">>,
         <<"c", "e", "l", "e", "b", "s", "_", "n", "a", "m", "e">>,
         <<"c", "e", "l", "e", "b", "r", "i", "t", "y", "_", "n", "a", "m", "e">>,
         <<"c", "e", "l", "e", "b", "r", "i", "t", "y", " ", "n", "a", "m", "e">>,
         <<"c", "e", "l", "e", "b", "_", "n", "a", "m", "e">>,
         <<"c", "e", "l", "e", "b", " ", "n", "a", "m", "e">>>>],
   [name |-> "fit",
     variants |->
       <<<<"f", "i", "t">>, <<"f", "i", "t", "t", "i", "n", "g">>,
         <<"s", "i", "z", "e", "_", "f", "i", "t">>,
         <<"s", "i", "z", "e", " ", "f", "i", "t">>>>],
   [name |-> "sizes info",
     variants |->
       <<<<"s", "i", "z", "e", "s", " ", "i", "n", "f", "o">>,
         <<"s", "i", "z", "e", "s", "_", "i", "n", "f", "o">>,
         <<"s", "i", "z", "e", "_", "i", "n", "f", "o">>,
         <<"s", "i", "z", "e", " ", "i", "n", "f", "o">>>>],
   [name |-> "delivery time",
     variants |->
       <<<<"d", "e", "l", "i", "v", "e", "r", "y", " ", "t", "i", "m", "e">>,
         <<"d", "e", "l", "i", "v", "e", "r", "y", "_", "t", "i", "m", "e">>,
         <<"s", "h", "i", "p", "p", "i", "n", "g", "_", "t", "i", "m", "e">>,
         <<"s", "h", "i", "p", "p", "i", "n", "g", " ", "t", "i", "m", "e">>>>],
   [name |-> "wash care",
     variants |->
       <<<<"w", "a", "s", "h", " ", "c", "a", "r", "e">>,
         <<"w", "a", "s", "h", "_", "c", "a", "r", "e">>,
         <<"c", "a", "r", "e", "_", "i", "n", "s", "t", "r", "u", "c", "t", "i", "o", "n", "s">>,
         <<"c", "a", "r", "e", " ", "i", "n", "s", "t", "r", "u", "c", "t", "i", "o", "n", "s">>>>],
   [name |-> "technique used",
     variants |->
       <<<<"t", "e", "c", "h", "n", "i", "q", "u", "e", " ", "u", "s", "e", "d">>,
         <<"t", "e", "c", "h", "n", "i", "q", "u", "e", "_", "u", "s", "e", "d">>,
         <<"m", "a", "n", "u", "f", "a", "c", "t", "u", "r", "i", "n", "g", "_", "t", "e", "c", "h", "n", "i", "q", "u", "e">>,
         <<"m", "a", "n", "u", "f", "a", "c", "t", "u", "r", "i", "n", "g", " ", "t", "e", "c", "h", "n", "i", "q", "u", "e">>>>],
   [name |-> "embroidery details",
     variants |->
       <<<<"e", "m", "b", "r", "o", "i", "d", "e", "r", "y", " ", "d", "e", "t", "a", "i", "l", "s">>,
         <<"e", "m", "b", "r", "o", "i", "d", "e", "r", "y", "_", "d", "e", "t", "a", "i", "l", "s">>,
         <<"e", "m", "b", "r", "o", "i", "d", "e", "r", "y">>,
         <<"e", "m", "b", "r", "o", "i", "d", "e", "r", "y", "_", "i", "n", "f", "o">>>>] >>

\* fuzzy_match_columns: its own table of synonyms.
COLUMN_MAPPING_VARIANTS ==
  <<
   [name |-> "title",
     variants |->
       <<<<"t", "i", "t", "l", "e">>,
         <<"p", "r", "o", "d", "u", "c", "t", "_", "t", "i", "t", "l", "e">>,
         <<"p", "r", "o", "d", "u", "c", "t", " ", "t", "i", "t", "l", "e">>,
         <<"n", "a", "m", "e">>,
         <<"p", "r", "o", "d", "u", "c", "t", "_", "n", "a", "m", "e">>,
         <<"p", "r", "o", "d", "u", "c", "t", " ", "n", "a", "m", "e">>>>],
   [name |-> "description",
     variants |->
       <<<<"d", "e", "s", "c", "r", "i", "p", "t", "i", "o", "n">>,
         <<"p", "r", "o", "d", "u", "c", "t", "_", "d", "e", "s", "c", "r", "i", "p", "t", "i", "o", "n">>,
         <<"p", "r", "o", "d", "u", "c", "t", " ", "d", "e", "s", "c", "r", "i", "p", "t", "i", "o", "n">>,
         <<"d", "e", "s", "c">>>>],
   [name |-> "colour",
     variants |->
       <<<<"c", "o", "l", "o", "u", "r">>, <<"c", "o", "l", "o", "r">>,
         <<"c", "o", "l", "o", "r", "s">>,
         <<"c", "o", "l", "o", "u", "r", "s">>>>],
   [name |-> "product code",
     variants |->
       <<<<"p", "r", "o", "d", "u", "c", "t", " ", "c", "o", "d", "e">>,
         <<"p", "r", "o", "d", "u", "c", "t", "_", "c", "o", "d", "e">>,
         <<"s", "k", "u">>,
         <<"p", "r", "o", "d", "u", "c", "t", "_", "s", "k", "u">>,
         <<"i", "t", "e", "m", "_", "c", "o", "d", "e">>,
         <<"i", "t", "e", "m", " ", "c", "o", "d", "e">>>>],
   [name |-> "product category",
     variants |->
       <<<<"p", "r", "o", "d", "u", "c", "t", " ", "c", "a", "t", "e", "g", "o", "r", "y">>,
         <<"p", "r", "o", "d", "u", "c", "t", "_", "c", "a", "t", "e", "g", "o", "r", "y">>,
         <<"c", "a", "t", "e", "g", "o", "r", "y">>,
         <<"p", "r", "o", "d", "u", "c", "t", "_", "t", "y", "p", "e">>>>],
   [name |-> "type",
     variants |->
       <<<<"t", "y", "p", "e">>,
         <<"p", "r", "o", "d", "u", "c", "t", "_", "t", "y", "p", "e">>,
         <<"p", "r", "o", "d", "u", "c", "t", " ", "t", "y", "p", "e">>>>],
   [name |-> "published",
     variants |->
       <<<<"p", "u", "b", "l", "i", "s", "h", "e", "d">>,
         <<"s", "t", "a", "t", "u", "s">>,
         <<"a", "c", "t", "i", "v", "e">>,
         <<"p", "u", "b", "l", "i", "s", "h", "_", "s", "t", "a", "t", "u", "s">>,
         <<"p", "u", "b", "l", "i", "s", "h", " ", "s", "t", "a", "t", "u", "s">>>>],
   [name |-> "size",
     variants |->
       <<<<"s", "i", "z", "e">>, <<"s", "i", "z", "e", "s">>,
         <<"v", "a", "r", "i", "a", "n", "t", "_", "s", "i", "z", "e">>,
         <<"v", "a", "r", "i", "a", "n", "t", " ", "s", "i", "z", "e">>>>],
   [name |-> "no of components",
     variants |->
       <<<<"n", "o", " ", "o", "f", " ", "c", "o", "m", "p", "o", "n", "e", "n", "t", "s">>,
         <<"n", "o", "_", "o", "f", "_", "c", "o", "m", "p", "o", "n", "e", "n", "t", "s">>,
         <<"c", "o", "m", "p", "o", "n", "e", "n", "t", "s">>,
         <<"n", "u", "m", "b", "e", "r", "_", "o", "f", "_", "c", "o", "m", "p", "o", "n", "e", "n", "t", "s">>,
         <<"c", "o", "m", "p", "o", "n", "e", "n", "t", "_", "c", "o", "u", "n", "t">>>>],
   [name |-> "fabric",
     variants |->
       <<<<"f", "a", "b", "r", "i", "c">>,
         <<"m", "a", "t", "e", "r", "i", "a", "l">>,
         <<"f", "a", "b", "r", "i", "c", "_", "t", "y", "p", "e">>,
         <<"f", "a", "b", "r", "i", "c", " ", "t", "y", "p", "e">>>>],
   [name |-> "variant price",
     variants |->
       <<<<"v", "a", "r", "i", "a", "n", "t", " ", "p", "r", "i", "c", "e">>,
         <<"v", "a", "r", "i", "a", "n", "t", "_", "p", "r", "i", "c", "e">>,
         <<"p", "r", "i", "c", "e">>,
         <<"u", "n", "i", "t", "_", "p", "r", "i", "c", "e">>,
         <<"u", "n", "i", "t", " ", "p", "r", "i", "c", "e">>,
         <<"c", "o", "s", "t">>>>],
   [name |-> "variant compare at price",
     variants |->
       <<<<"v", "a", "r", "i", "a", "n", "t", " ", "c", "o", "m", "p", "a", "r", "e", " ", "a", "t", " ", "p", "r", "i", "c", "e">>,
         <<"v", "a", "r", "i", "a", "n", "t", "_", "c", "o", "m", "p", "a", "r", "e", "_", "a", "t", "_", "p", "r", "i", "c", "e">>,
         <<"c", "o", "m", "p", "a", "r", "e", "_", "p", "r", "i", "c", "e">>,
         <<"c", "o", "m", "p", "a", "r", "e", " ", "p", "r", "i", "c", "e">>>>],
   [name |-> "celebs name",
     variants |->
       <<<<"c", "e", "l", "e", "b", "s", " ", "n", "a", "m", "e">>,
         <<"c", "e", "l", "e", "b", "s", "_", "n", "a", "m", "e">>,
         <<"c", "e", "l", "e", "b", "r", "i", "t", "y", "_", "n", "a", "m", "e">>,
         <<"c", "e", "l", "e", "b", "r", "i", "t", "y", " ", "n", "a", "m", "e">>>>],
   [name |-> "fit",
     variants |->
       <<<<"f", "i", "t">>, <<"f", "i", "t", "t", "i", "n", "g">>,
         <<"s", "i", "z", "e", "_", "f", "i", "t">>,
         <<"s", "i", "z", "e", " ", "f", "i", "t">>>>],
   [name |-> "sizes info",
     variants |->
       <<<<"s", "i", "z", "e", "s", " ", "i", "n", "f", "o">>,
         <<"s", "i", "z", "e", "s", "_", "i", "n", "f", "o">>,
         <<"s", "i", "z", "e", "_", "i", "n", "f", "o">>,
         <<"s", "i", "z", "e", " ", "i", "n", "f", "o">>>>],
   [name |-> "delivery time",
     variants |->
       <<<<"d", "e", "l", "i", "v", "e", "r", "y", " ", "t", "i", "m", "e">>,
         <<"d", "e", "l", "i", "v", "e", "r", "y", "_", "t", "i", "m", "e">>,
         <<"s", "h", "i", "p", "p", "i", "n", "g", "_", "t", "i", "m", "e">>,
         <<"s", "h", "i", "p", "p", "i", "n", "g", " ", "t", "i", "m", "e">>>>],
   [name |-> "wash care",
     variants |->
       <<<<"w", "a", "s", "h", " ", "c", "a", "r", "e">>,
         <<"w", "a", "s", "h", "_", "c", "a", "r", "e">>,
         <<"c", "a", "r", "e", "_", "i", "n", "s", "t", "r", "u", "c", "t", "i", "o", "n", "s">>,
         <<"c", "a", "r", "e", " ", "i", "n", "s", "t", "r", "u", "c", "t", "i", "o", "n", "s">>>>],
   [name |-> "technique used",
     variants |->
       <<<<"t", "e", "c", "h", "n", "i", "q", "u", "e", " ", "u", "s", "e", "d">>,
         <<"t", "e", "c", "h", "n", "i", "q", "u", "e", "_", "u", "s", "e", "d">>,
         <<"m", "a", "n", "u", "f", "a", "c", "t", "u", "r", "i", "n", "g", "_", "t", "e", "c", "h", "n", "i", "q", "u", "e">>>>],
   [name |-> "embroidery details",
     variants |->
       <<<<"e", "m", "b", "r", "o", "i", "d", "e", "r", "y", " ", "d", "e", "t", "a", "i", "l", "s">>,
         <<"e", "m", "b", "r", "o", "i", "d", "e", "r", "y", "_", "d", "e", "t", "a", "i", "l", "s">>,
         <<"e", "m", "b", "r", "o", "i", "d", "e", "r", "y">>>>] >>

\* detect_status_values
status_words ==
  {<<"a", "c", "t", "i", "v", "e">>, <<"d", "r", "a", "f", "t">>,
   <<"f", "a", "l", "s", "e">>, <<"i", "n", "a", "c", "t", "i", "v", "e">>,
   <<"n", "o">>, <<"p", "u", "b", "l", "i", "s", "h", "e", "d">>,
   <<"t", "r", "u", "e">>,
   <<"u", "n", "p", "u", "b", "l", "i", "s", "h", "e", "d">>,
   <<"y", "e", "s">>}

\* detect_colors
color_words ==
  {<<"b", "e", "i", "g", "e">>, <<"b", "l", "a", "c", "k">>,
   <<"b", "l", "u", "e">>, <<"b", "r", "o", "w", "n">>,
   <<"c", "r", "e", "a", "m">>, <<"c", "y", "a", "n">>,
   <<"g", "o", "l", "d">>, <<"g", "r", "a", "y">>,
   <<"g", "r", "e", "e", "n">>, <<"g", "r", "e", "y">>,
   <<"l", "i", "m", "e">>, <<"m", "a", "g", "e", "n", "t", "a">>,
   <<"m", "a", "r", "o", "o", "n">>, <<"n", "a", "v", "y">>,
   <<"o", "l", "i", "v", "e">>, <<"o", "r", "a", "n", "g", "e">>,
   <<"p", "i", "n", "k">>, <<"p", "u", "r", "p", "l", "e">>,
   <<"r", "e", "d">>, <<"s", "i", "l", "v", "e", "r">>, <<"t", "a", "n">>,
   <<"t", "e", "a", "l">>, <<"w", "h", "i", "t", "e">>,
   <<"y", "e", "l", "l", "o", "w">>}

\* detect_categories
category_words ==
  {<<"a", "c", "c", "e", "s", "s", "o", "r", "i", "e", "s">>,
   <<"a", "p", "p", "a", "r", "e", "l">>, <<"b", "a", "g">>,
   <<"b", "e", "a", "u", "t", "y">>, <<"b", "e", "l", "t">>,
   <<"b", "l", "o", "u", "s", "e">>, <<"b", "o", "o", "k", "s">>,
   <<"b", "o", "o", "t", "s">>, <<"b", "r", "a", "c", "e", "l", "e", "t">>,
   <<"c", "a", "p">>, <<"c", "l", "o", "t", "h", "i", "n", "g">>,
   <<"c", "o", "a", "t">>, <<"d", "r", "e", "s", "s">>,
   <<"e", "l", "e", "c", "t", "r", "o", "n", "i", "c", "s">>,
   <<"f", "o", "o", "t", "w", "e", "a", "r">>, <<"h", "a", "t">>,
   <<"h", "e", "a", "l", "t", "h">>, <<"h", "o", "m", "e">>,
   <<"j", "a", "c", "k", "e", "t">>, <<"j", "e", "a", "n", "s">>,
   <<"j", "e", "w", "e", "l", "r", "y">>,
   <<"k", "i", "t", "c", "h", "e", "n">>,
   <<"n", "e", "c", "k", "l", "a", "c", "e">>, <<"p", "a", "n", "t", "s">>,
   <<"p", "u", "r", "s", "e">>, <<"r", "i", "n", "g">>,
   <<"s", "c", "a", "r", "f">>, <<"s", "h", "i", "r", "t">>,
   <<"s", "h", "o", "e", "s">>, <<"s", "h", "o", "r", "t", "s">>,
   <<"s", "k", "i", "r", "t">>, <<"s", "p", "o", "r", "t", "s">>,
   <<"t", "o", "p">>, <<"t", "o", "y", "s">>, <<"w", "a", "t", "c", "h">>}

\* detect_codes
name_hints ==
  {<<"c", "o", "d", "e">>, <<"i", "d">>, <<"n", "u", "m", "b", "e", "r">>,
   <<"r", "e", "f">>, <<"s", "k", "u">>}

Frac(num, den) == [num |-> num, den |-> den]

\* x > y on fractions.
Gt(x, y) == x.num * y.den > y.num * x.den

\* max(x, y)
MaxFrac(x, y) == IF Gt(y, x) THEN y ELSE x

\* sub in s
Contains(sub, s) ==
  \E i \in 1..(Len(s) - Len(sub) + 1) : SubSeq(s, i, i + Len(sub) - 1) = sub

\* re.sub(r'[_\-\s]+', '', s)
IsSeparator(c) == c = "_" \/ c = "-" \/ IsSpace(c)

NotSeparator(c) == ~IsSeparator(c)

RemoveSeparators(s) == SelectSeq(s, NotSeparator)

\* The length of the block that starts at a[i] and b[j], within a[..ahi]
\* and b[..bhi].
RECURSIVE BlockLen(_, _, _, _, _, _)
BlockLen(a, i, ahi, b, j, bhi) ==
  IF i > ahi \/ j > bhi THEN 0
  ELSE IF a[i] # b[j] THEN 0
  ELSE 1 + BlockLen(a, i + 1, ahi, b, j + 1, bhi)

\* SequenceMatcher.find_longest_match over a[alo..ahi] and b[blo..bhi]
\* (no junk): of the longest blocks the one that starts earliest in a, and
\* of those the one that starts earliest in b.
BlocksIn(a, alo, ahi, b, blo, bhi) ==
  {[i |-> i, j |-> j, size |-> BlockLen(a, i, ahi, b, j, bhi)] :
     i \in alo..ahi, j \in blo..bhi}

Earlier(m, n) == m.i < n.i \/ (m.i = n.i /\ m.j <= n.j)

Longest(sizes) == CHOOSE k \in sizes : \A x \in sizes : k >= x

EarliestOf(blocks) == CHOOSE m \in blocks : \A n \in blocks : Earlier(m, n)

LongestBlocks(blocks, bestsize) == {m \in blocks : m.size = bestsize}

LongestOf(blocks, bestsize) ==
  IF bestsize = 0 THEN CHOOSE m \in blocks : TRUE
  ELSE EarliestOf(LongestBlocks(blocks, bestsize))

LongestIn(blocks) == LongestOf(blocks, Longest({m.size : m \in blocks}))

find_longest_match(a, alo, ahi, b, blo, bhi) ==
  LongestIn(BlocksIn(a, alo, ahi, b, blo, bhi))

\* SequenceMatcher.get_matching_blocks: the characters matched, the
\* longest block first and then what lies left and right of it.
RECURSIVE Matched(_, _, _, _, _, _)
MatchedAround(m, a, alo, ahi, b, blo, bhi) ==
  IF m.size = 0 THEN 0
  ELSE m.size
       + Matched(a, alo, m.i - 1, b, blo, m.j - 1)
       + Matched(a, m.i + m.size, ahi, b, m.j + m.size, bhi)

Matched(a, alo, ahi, b, blo, bhi) ==
  IF alo > ahi \/ blo > bhi THEN 0
  ELSE MatchedAround(find_longest_match(a, alo, ahi, b, blo, bhi),
                     a, alo, ahi, b, blo, bhi)

\* SequenceMatcher(None, a, b).ratio(): 2.0 * matches / length, 1.0 for
\* two empty strings.
Ratio(a, b) ==
  IF Len(a) + Len(b) = 0 THEN Frac(1, 1)
  ELSE Frac(2 * Matched(a, 1, Len(a), b, 1, Len(b)), Len(a) + Len(b))

\* The boost when one string contains the other.
Boosted(similarity, str1_clean, str2_clean) ==
  IF Contains(str2_clean, str1_clean) \/ Contains(str1_clean, str2_clean)
  THEN MaxFrac(similarity, Frac(4, 5))
  ELSE similarity

CleanSimilarity(str1_clean, str2_clean) ==
  Boosted(Ratio(str1_clean, str2_clean), str1_clean, str2_clean)

\* calculate_similarity(str1, str2)
calculate_similarity(str1, str2) ==
  CleanSimilarity(RemoveSeparators(str1), RemoveSeparators(str2))

\* The name a column is looked up by: col.lower().strip()
LowerName(col) == Strip(Lower(col.name))

\* actual_columns_lower = {col.lower().strip(): col for col in df.columns}:
\* of the columns with one lowered name the last one stays.
ActualColumn(df, key) ==
  df[CHOOSE i \in DOMAIN df :
       /\ LowerName(df[i]) = key
       /\ \A j \in DOMAIN df : LowerName(df[j]) = key => j <= i].name

\* The variants of one standard name that some column is called.
VariantsFound(df, variants) ==
  LET Found(variant) == \E i \in DOMAIN df : LowerName(df[i]) = Lower(variant)
  IN  SelectSeq(variants, Found)

\* The first variant found maps the standard name (break).
MapFirst(column_mapping, df, standard_name, found) ==
  IF found = <<>> THEN column_mapping
  ELSE Put(column_mapping, standard_name, ActualColumn(df, Lower(found[1])))

RECURSIVE NormalizeOver(_, _, _)
NormalizeOver(df, table, n) ==
  IF n = 0 THEN << >>
  ELSE MapFirst(NormalizeOver(df, table, n - 1), df, table[n].name,
                VariantsFound(df, table[n].variants))

\* normalize_column_names(df): the exact pass.
normalize_column_names(df) ==
  NormalizeOver(df, column_variants, Len(column_variants))

\* The column names a mapping maps to.
MappedColumns(mapping) == {mapping[k] : k \in DOMAIN mapping}

\* [col for col in columns if col not in mapped]
Unmapped(columns, mapped) ==
  LET Free(col) == col.name \notin mapped IN SelectSeq(columns, Free)

\* The (standard name, variant) pairs the fuzzy pass compares a column
\* with, in the order of its loops: the standard names of existing_mapping
\* are skipped.
VariantPairs(entry) ==
  [i \in DOMAIN entry.variants |->
     [name |-> entry.name, variant |-> entry.variants[i]]]

RECURSIVE PairsOver(_, _, _)
PairsOver(table, existing_mapping, n) ==
  IF n = 0 THEN <<>>
  ELSE PairsOver(table, existing_mapping, n - 1)
       \o (IF table[n].name \in DOMAIN existing_mapping THEN <<>>
           ELSE VariantPairs(table[n]))

FuzzyPairs(existing_mapping) ==
  PairsOver(COLUMN_MAPPING_VARIANTS, existing_mapping,
            Len(COLUMN_MAPPING_VARIANTS))

NoMatch == [name |-> "", score |-> Frac(0, 1)]

\* The similarity of the lowered column name to every pair's variant.
Similarities(lowered, pairs) ==
  [n \in DOMAIN pairs |->
     calculate_similarity(lowered, Lower(pairs[n].variant))]

\* if similarity > best_score and similarity > 0.7: the loops keep the
\* first pair of the highest similarity, when that is above 0.7.
IsBest(scores, n) ==
  /\ Gt(scores[n], Frac(7, 10))
  /\ \A x \in DOMAIN scores :
       Gt(scores[n], scores[x]) \/ (~Gt(scores[x], scores[n]) /\ n <= x)

BestOf(scores, pairs) ==
  IF \E n \in DOMAIN scores : IsBest(scores, n)
  THEN LET n == CHOOSE n \in DOMAIN scores : IsBest(scores, n)
       IN  [name |-> pairs[n].name, score |-> scores[n]]
  ELSE NoMatch

BestMatch(lowered, pairs) == BestOf(Similarities(lowered, pairs), pairs)

\* if best_match and best_standard_name: the column takes the standard
\* name, also when an earlier column of this pass has taken it.
TakeBest(fuzzy, col, best) ==
  IF col.name # <<>> /\ best.name # ""
  THEN [mappings |-> Put(fuzzy.mappings, best.name, col.name),
        confidence |-> Put(fuzzy.confidence, col.name, best.score)]
  ELSE fuzzy

NoMappings == [mappings |-> << >>, confidence |-> << >>]

RECURSIVE FuzzyOver(_, _, _)
FuzzyOver(unmapped_columns, pairs, n) ==
  IF n = 0 THEN NoMappings
  ELSE TakeBest(FuzzyOver(unmapped_columns, pairs, n - 1),
                unmapped_columns[n],
                BestMatch(Lower(unmapped_columns[n].name), pairs))

\* fuzzy_match_columns(unmapped_columns, existing_mapping)
fuzzy_match_columns(unmapped_columns, existing_mapping) ==
  FuzzyOver(unmapped_columns, FuzzyPairs(existing_mapping),
            Len(unmapped_columns))

\* [str(v).lower().strip() for v in sample_values if str(v).strip()]
RECURSIVE values_lower(_)
values_lower(sample_values) ==
  IF sample_values = <<>> THEN <<>>
  ELSE (IF Strip(Head(sample_values)) = <<>> THEN <<>>
        ELSE <<Strip(Lower(Head(sample_values)))>>)
       \o values_lower(Tail(sample_values))

\* count / total, 0 when there are no values.
Share(count, total) == IF total = 0 THEN Frac(0, 1) ELSE Frac(count, total)

\* re.sub(r'[₹$€£,\s]', '', value)
NotCurrency(c) == ~(c \in {"$", ","} \/ IsSpace(c))

\* float(clean_value) with 0 < num < 100000, for text written without a
\* point or an exponent.
LooksLikePrice(value) ==
  LET num == IntParse(SelectSeq(value, NotCurrency))
  IN  num.ok /\ 0 < num.v /\ num.v < 100000

\* detect_prices(values)
detect_prices(values) ==
  Share(Len(SelectSeq(values, LooksLikePrice)), Len(values))

IsStatusWord(value) == Strip(Lower(value)) \in status_words

\* detect_status_values(values)
detect_status_values(values) ==
  Share(Len(SelectSeq(values, IsStatusWord)), Len(values))

\* \b at both ends of v[i..j], a stretch of word characters.
WordBounded(v, i, j) ==
  /\ i = 1 \/ ~IsWord(v[i - 1])
  /\ j = Len(v) \/ ~IsWord(v[j + 1])

\* re.search(r'\b(w1|w2|...)\b', v)
HasWord(v, words) ==
  \E w \in words : \E i \in 1..(Len(v) - Len(w) + 1) :
    SubSeq(v, i, i + Len(w) - 1) = w /\ WordBounded(v, i, i + Len(w) - 1)

AllDigits(v, i, j) == \A x \in i..j : IsDigit(v[x])

\* re.search(r'\b\d{1,2}\b', v)
HasShortNumber(v) ==
  \E i \in DOMAIN v : \E j \in {i, i + 1} \cap DOMAIN v :
    AllDigits(v, i, j) /\ WordBounded(v, i, j)

\* re.search(r'\b\d{1,2}-\d+\b', v)
HasSizeWithQuantity(v) ==
  \E i \in DOMAIN v : \E j \in {i, i + 1} \cap DOMAIN v :
    /\ AllDigits(v, i, j)
    /\ i = 1 \/ ~IsWord(v[i - 1])
    /\ j + 1 \in DOMAIN v /\ v[j + 1] = "-"
    /\ \E k \in (j + 2)..Len(v) :
         /\ AllDigits(v, j + 2, k)
         /\ k = Len(v) \/ ~IsWord(v[k + 1])

StandardSizeWords ==
  {<<"x", "s">>, <<"s">>, <<"m">>, <<"l">>, <<"x", "l">>,
   <<"x", "x", "l">>, <<"x", "x", "x", "l">>}

WordSizes ==
  {<<"s", "m", "a", "l", "l">>, <<"m", "e", "d", "i", "u", "m">>,
   <<"l", "a", "r", "g", "e">>}

\* One of size_patterns is found in str(value).lower()
LooksLikeSize(value) ==
  \/ HasWord(Lower(value), StandardSizeWords)
  \/ HasShortNumber(Lower(value))
  \/ HasWord(Lower(value), WordSizes)
  \/ HasSizeWithQuantity(Lower(value))

\* detect_sizes(values)
detect_sizes(values) ==
  Share(Len(SelectSeq(values, LooksLikeSize)), Len(values))

HexDigits == {"0", "1", "2", "3", "4", "5", "6", "7", "8", "9",
              "a", "b", "c", "d", "e", "f"}

\* re.search(r'#[0-9a-f]{6}', v)
HasHexColour(v) ==
  \E i \in 1..(Len(v) - 6) :
    v[i] = "#" /\ \A x \in (i + 1)..(i + 6) : v[x] \in HexDigits

\* any(word in v for word in words)
HasAnyOf(v, words) == \E w \in words : Contains(w, v)

LooksLikeColour(value) ==
  HasAnyOf(Lower(value), color_words) \/ HasHexColour(Lower(value))

\* detect_colors(values)
detect_colors(values) ==
  Share(Len(SelectSeq(values, LooksLikeColour)), Len(values))

LooksLikeCategory(value) == HasAnyOf(Lower(value), category_words)

\* detect_categories(values)
detect_categories(values) ==
  Share(Len(SelectSeq(values, LooksLikeCategory)), Len(values))

\* re.match(r'^[A-Za-z0-9_-]+$', value_str) and len(value_str) > 2
LooksLikeCode(value) ==
  LET value_str == Strip(value)
  IN  /\ Len(value_str) > 2
      /\ \A i \in DOMAIN value_str :
           IsWord(value_str[i]) \/ value_str[i] = "-"

\* min(1.0, base_score + name_bonus), name_bonus 0.3
WithBonus(base_score, name_bonus) ==
  IF ~name_bonus THEN base_score
  ELSE IF 10 * base_score.num + 3 * base_score.den > 10 * base_score.den
    THEN Frac(1, 1)
  ELSE Frac(10 * base_score.num + 3 * base_score.den, 10 * base_score.den)

\* detect_codes(values, column_name)
detect_codes(values, column_name) ==
  WithBonus(Share(Len(SelectSeq(values, LooksLikeCode)), Len(values)),
            HasAnyOf(column_name, name_hints))

NoType == [type |-> "", confidence |-> Frac(0, 1)]

Detected(type, confidence) == [type |-> type, confidence |-> confidence]

\* The chain of tests of detect_column_type, on the lowered values.
DetectLowered(values, column_lower) ==
  IF Gt(detect_prices(values), Frac(7, 10))
    THEN Detected("variant price", Frac(8, 10))
  ELSE IF Gt(detect_status_values(values), Frac(6, 10))
    THEN Detected("published", Frac(7, 10))
  ELSE IF Gt(detect_sizes(values), Frac(6, 10))
    THEN Detected("size", Frac(7, 10))
  ELSE IF Gt(detect_colors(values), Frac(6, 10))
    THEN Detected("colour", Frac(7, 10))
  ELSE IF Gt(detect_categories(values), Frac(5, 10))
    THEN Detected("product category", Frac(6, 10))
  ELSE IF Gt(detect_codes(values, column_lower), Frac(7, 10))
    THEN Detected("product code", Frac(8, 10))
  ELSE NoType

\* detect_column_type(sample_values, column_name)
detect_column_type(sample_values, column_name) ==
  DetectLowered(values_lower(sample_values), Lower(column_name))

\* df[col].dropna().astype(str).head(10).tolist(): the column's values are
\* its non-null values as text.
MaxSample == 10

sample_values(col) ==
  SubSeq(col.values, 1,
         IF Len(col.values) < MaxSample THEN Len(col.values) ELSE MaxSample)

\* if detected_type and confidence > 0.6, and the type is not in
\* existing_mapping: the column takes the type, also when an earlier column
\* of this pass has taken it.
TakeDetected(content, col, detected, existing_mapping) ==
  IF /\ detected.type # ""
     /\ Gt(detected.confidence, Frac(6, 10))
     /\ detected.type \notin DOMAIN existing_mapping
  THEN [mappings |-> Put(content.mappings, detected.type, col.name),
        confidence |-> Put(content.confidence, col.name, detected.confidence)]
  ELSE content

AnalyzeColumn(content, col, sample, existing_mapping) ==
  IF sample = <<>> THEN content
  ELSE TakeDetected(content, col, detect_column_type(sample, col.name),
                    existing_mapping)

RECURSIVE AnalyzeOver(_, _, _)
AnalyzeOver(unmapped_columns, existing_mapping, n) ==
  IF n = 0 THEN NoMappings
  ELSE AnalyzeColumn(AnalyzeOver(unmapped_columns, existing_mapping, n - 1),
                     unmapped_columns[n], sample_values(unmapped_columns[n]),
                     existing_mapping)

\* analyze_column_content(df, unmapped_columns, existing_mapping)
analyze_column_content(unmapped_columns, existing_mapping) ==
  AnalyzeOver(unmapped_columns, existing_mapping, Len(unmapped_columns))

\* dict.update(other)
Update(m, other) ==
  [k \in (DOMAIN m) \cup (DOMAIN other) |->
     IF k \in DOMAIN other THEN other[k] ELSE m[k]]

\* Steps 2 to 5 of intelligent_column_mapper, from the result of step 1.
Remaining(unmapped_columns, fuzzy) ==
  Unmapped(unmapped_columns, MappedColumns(fuzzy.mappings))

Combined(df, column_mapping, fuzzy, content) ==
  [exact |-> column_mapping,
   fuzzy |-> fuzzy.mappings,
   content |-> content.mappings,
   enhanced_mapping |-> Update(Update(column_mapping, fuzzy.mappings),
                               content.mappings),
   fuzzy_confidence |-> fuzzy.confidence]

WithContent(df, column_mapping, unmapped_columns, fuzzy) ==
  Combined(df, column_mapping, fuzzy,
           analyze_column_content(Remaining(unmapped_columns, fuzzy),
                                  column_mapping))

WithFuzzy(df, column_mapping, unmapped_columns) ==
  WithContent(df, column_mapping, unmapped_columns,
              fuzzy_match_columns(unmapped_columns, column_mapping))

MapperSteps(df, column_mapping) ==
  WithFuzzy(df, column_mapping,
            Unmapped(df, MappedColumns(column_mapping)))

\* intelligent_column_mapper(df): the mappings of the three passes and the
\* mapping returned.
intelligent_column_mapper(df) == MapperSteps(df, normalize_column_names(df))

(***************************************************************************)
(* The Column Mapper called on a dataframe                                 *)
(***************************************************************************)

Column(name, values) == [name |-> name, values |-> values]

\* "Title": "Shirt"
ColTitle ==
  Column(<<"T", "i", "t", "l", "e">>,
         <<<<"S", "h", "i", "r", "t">>>>)

\* "Price": "499"
ColPrice ==
  Column(<<"P", "r", "i", "c", "e">>,
         <<<<"4", "9", "9">>>>)

\* "Prices": "499", "1200"
ColPrices ==
  Column(<<"P", "r", "i", "c", "e", "s">>,
         <<<<"4", "9", "9">>, <<"1", "2", "0", "0">>>>)

\* "Amount": "499", "1200"
ColAmount ==
  Column(<<"A", "m", "o", "u", "n", "t">>,
         <<<<"4", "9", "9">>, <<"1", "2", "0", "0">>>>)

\* "Colr": "Red", "Blue"
ColColr ==
  Column(<<"C", "o", "l", "r">>,
         <<<<"R", "e", "d">>, <<"B", "l", "u", "e">>>>)

\* "Shade": "Red"
ColShade ==
  Column(<<"S", "h", "a", "d", "e">>,
         <<<<"R", "e", "d">>>>)

\* "Item Status": "active", "draft"
ColItemStatus ==
  Column(<<"I", "t", "e", "m", " ", "S", "t", "a", "t", "u", "s">>,
         <<<<"a", "c", "t", "i", "v", "e">>, <<"d", "r", "a", "f", "t">>>>)

\* "Notes": every cell blank
ColNotes ==
  Column(<<"N", "o", "t", "e", "s">>,
         <<>>)

\* "Item Price": "499"
ColItemPrice ==
  Column(<<"I", "t", "e", "m", " ", "P", "r", "i", "c", "e">>,
         <<<<"4", "9", "9">>>>)

ColumnPool ==
  {ColTitle, ColPrice, ColPrices, ColAmount,
   ColColr, ColShade, ColItemStatus, ColNotes, ColItemPrice}

MaxColumns == 3

\* The dataframes: up to MaxColumns columns of the pool, in any order, no
\* column twice.
Dataframes ==
  {df \in UNION {[1..n -> ColumnPool] : n \in 1..MaxColumns} :
     \A i, j \in DOMAIN df : i # j => df[i] # df[j]}

InitMapper ==
  /\ impl = "dp"
  /\ upload = [rows |-> << >>, vcap_col |-> FALSE, pub_col |-> FALSE]
  /\ config = DefaultConfig
  /\ session = EmptySession
  /\ out = << >>
  /\ status = "idle"
  /\ last = NoEvent
  /\ prev = EmptySession
  /\ passes = 0
  /\ call \in [fn : {"none"}, arg : Dataframes, ret : {<< >>}]
  /\ ai = NoBatch

\* normalize_column_names(df) called on its own, as app.py calls its copy.
NormalizeColumnNames ==
  Returned("normalize_column_names", normalize_column_names(call.arg))

\* intelligent_column_mapper(df)
IntelligentColumnMapper ==
  Returned("intelligent_column_mapper", intelligent_column_mapper(call.arg))

NextMapper ==
  \/ NormalizeColumnNames
  \/ IntelligentColumnMapper

SpecMapper == InitMapper /\ [][NextMapper]_vars

(***************************************************************************)
(* Override precedence                                                     *)
(***************************************************************************)

\* The key the last event edited.
EditedKey == KeyOf(session.uv[last.i])

\* The assembled rows that come from dataframe rows of key k.
RowsOfKey(k) ==
  {j \in DOMAIN out : VariantKeyOfRow(session.df[out[j].row]) = k}

LaterPass == {"rerun", "initialize", "generate"}

\* Neither bulk mode nor the surcharge is switched on.
PlainConfig ==
  /\ ~config.bulk_qty_mode
  /\ ~config.bulk_compare_price_mode
  /\ ~config.enable_surcharge

\* C2: once the user has set a key's quantity q and compare price p, a
\* later pass of the same session that answers no edit, with bulk modes and
\* surcharge off, leaves q and p in the store for that key.
C2_EditSurvivesLaterPass ==
  [][(/\ last.op \in {"form", "sheet", "edit"}
      /\ last'.op \in LaterPass
      /\ PlainConfig)
     => /\ EditedKey \in DOMAIN session'.vq
        /\ session'.vq[EditedKey] = last.q
        /\ EditedKey \in DOMAIN session'.vcp
        /\ session'.vcp[EditedKey] = last.p]_vars

\* The last run assembled an output and answered no edit.
AssembledPass ==
  /\ status = "ok"
  /\ \/ impl = "app" /\ last.op \in {"process", "rerun", "config"}
     \/ impl = "dp" /\ last.op = "generate"

\* The last run assembled an output.
AssembledRun ==
  /\ status = "ok"
  /\ \/ impl = "app" /\ last.op \in {"process", "rerun", "config", "form", "sheet"}
     \/ impl = "dp" /\ last.op = "generate"

\* The dataframe row an assembled row was built from.
RowOf(j) == session.df[out[j].row]

\* C3: a pass run while bulk quantity mode (bulk compare price mode) is on
\* leaves the bulk value in the store for every listed variant, and every
\* row the pass assembles carries the bulk value.
C3_BulkOverwritesEveryPass ==
  AssembledPass =>
    /\ config.bulk_qty_mode =>
         /\ \A n \in DOMAIN session.uv :
              Get(session.vq, KeyOf(session.uv[n]), -1) = config.bulk_qty
         /\ \A j \in DOMAIN out : out[j].Qty = config.bulk_qty
    /\ config.bulk_compare_price_mode =>
         /\ \A n \in DOMAIN session.uv :
              Get(session.vcp, KeyOf(session.uv[n]), -1)
                = config.bulk_compare_price
         /\ \A j \in DOMAIN out : out[j].Compare = config.bulk_compare_price

(***************************************************************************)
(* Assembly                                                                *)
(***************************************************************************)

\* C4: every assembled row, first of its group or not, carries the
\* quantity and the compare price the store holds for the row's key when
\* the run ends.
C4_StoreAuthoritative ==
  AssembledRun =>
    \A j \in DOMAIN out :
      /\ VariantKeyOfRow(RowOf(j)) \in DOMAIN session.vq =>
           out[j].Qty = session.vq[VariantKeyOfRow(RowOf(j))]
      /\ VariantKeyOfRow(RowOf(j)) \in DOMAIN session.vcp =>
           out[j].Compare = clean_float(session.vcp[VariantKeyOfRow(RowOf(j))])

(***************************************************************************)
(* Size surcharge                                                          *)
(***************************************************************************)

\* The size of a dataframe row is a key of the surcharge rules.
Surchargeable(row) ==
  /\ config.enable_surcharge
  /\ Upper(Strip(row.sizes_list)) \in DOMAIN config.surcharge_rules

\* Variant Price of the upload, in cents.
ListPrice(row) == clean_value_numeric(row.price, 0)

\* C5: the surcharge leaves every variant's list price as it was: each
\* assembled row carries the Variant Price of the upload; and in app.py the
\* surcharge loop leaves the compare price of every key whose size is not
\* in the rules as it was.
C5_SurchargeIsolation ==
  /\ (AssembledPass /\ config.enable_surcharge) =>
       \A j \in DOMAIN out :
         out[j].Price = ListPrice(RowOf(j)) /\ out[j].PriceRem = 0
  /\ (impl = "app" /\ session.has_df /\ config.enable_surcharge) =>
       \A n \in DOMAIN session.uv :
         Upper(Strip(session.uv[n][1])) \notin DOMAIN config.surcharge_rules
           => Get(Surcharge(session.vcp, session, config),
                  KeyOf(session.uv[n]), -1)
                = Get(session.vcp, KeyOf(session.uv[n]), -1)

\* C6: with no bulk compare price, every row a pass assembles for a variant
\* whose size is in the rules carries round(Variant Price * (1 + p), 2) as
\* its compare price.
C6_SurchargedCompareEmitted ==
  (AssembledPass /\ ~config.bulk_compare_price_mode) =>
    \A j \in DOMAIN out :
      Surchargeable(RowOf(j)) =>
        out[j].Compare
          = Surcharged(ListPrice(RowOf(j)),
                       config.surcharge_rules[Upper(Strip(RowOf(j).sizes_list))])

(***************************************************************************)
(* Explosion and output shape                                              *)
(***************************************************************************)

SetOf(seq) == {seq[i] : i \in DOMAIN seq}

AtLeastOne(n) == IF n = 0 THEN 1 ELSE n

\* The distinct size labels and the distinct colours of a source row.
DistinctSizes(row) ==
  SetOf(Labels(ParseAll(StripNonEmpty(Split(clean_value(row.size), ",")))))

DistinctColours(row) == SetOf(ParseColours(row.colour))

\* The dataframe rows exploded from source row i.
ExplodedFrom(i) == {r \in DOMAIN session.df : session.df[r].src = i}

\* C7: a source row with N distinct size labels and M distinct colours
\* explodes into N*M rows, a blank field counting as one.
C7_VariantCount ==
  session.has_df =>
    \A i \in DOMAIN upload.rows :
      Cardinality(ExplodedFrom(i))
        = AtLeastOne(Cardinality(DistinctSizes(upload.rows[i])))
            * AtLeastOne(Cardinality(DistinctColours(upload.rows[i])))

\* C8: every assembled row has a non-blank Handle.
C8_HandleNonBlank ==
  AssembledPass => \A j \in DOMAIN out : out[j].Handle # <<>>

\* The assembled rows of the group of dataframe rows with Handle h.
GroupOut(h) == {j \in DOMAIN out : RowOf(j).Handle = h}

\* C9: a Handle group of k dataframe rows gives k assembled rows, the first
\* of them titled and every other one with blank product-level fields.
C9_AssemblerShape ==
  AssembledPass =>
    \A h \in SetOf(HandlesOf(session.df)) :
      /\ Cardinality(GroupOut(h)) = Cardinality(SetOf(GroupRows(session.df, h)))
      /\ Cardinality({j \in GroupOut(h) : out[j].Title # <<>>}) = 1
      /\ \A j \in GroupOut(h) :
           /\ out[j].Title # <<>> => \A x \in GroupOut(h) : j <= x
           /\ out[j].Title = <<>> =>
                out[j].Vendor = "" /\ out[j].Published = ""

\* The first dataframe row that shows Handle h.
FirstSeen(h) ==
  CHOOSE i \in DOMAIN session.df :
    /\ session.df[i].Handle = h
    /\ \A x \in DOMAIN session.df : session.df[x].Handle = h => i <= x

\* C10 as the specification states it: the groups come out in the order in
\* which the dataframe first shows their Handles.
C10_GroupsInFirstSeenOrder ==
  AssembledPass =>
    \A j, x \in DOMAIN out :
      j < x => FirstSeen(RowOf(j).Handle) <= FirstSeen(RowOf(x).Handle)

\* C10: the groups come out in ascending order of their Handles, wherever
\* the dataframe first shows them.
C10_GroupsInHandleOrder ==
  AssembledPass =>
    \A j, x \in DOMAIN out :
      j < x => StrLeq(RowOf(j).Handle, RowOf(x).Handle)

\* C10 happens: the Handle the dataframe shows first comes out last.
C10_Witness ==
  /\ AssembledPass
  /\ \E j, x \in DOMAIN out :
       /\ j < x
       /\ FirstSeen(RowOf(j).Handle) > FirstSeen(RowOf(x).Handle)
       /\ StrLess(RowOf(j).Handle, RowOf(x).Handle)

(***************************************************************************)
(* Size parsing and ordering                                               *)
(***************************************************************************)

\* The three classes of section "Size Sorter": 0 Standard, 1 Numeric (all
\* digits, or X followed by digits only, ignoring case), 2 Custom.
SizeClass(z) ==
  IF StandardIndex(z) >= 0 THEN 0
  ELSE IF IsAllDigits(z) \/ XDigitsWhole(Upper(z)) THEN 1
  ELSE 2

EmbeddedInteger(z) ==
  IF IsAllDigits(z) THEN DigitsValue(z) ELSE DigitsValue(Tail(z))

\* a may stand before b in the ordered label list.
MayPrecede(a, b) ==
  \/ SizeClass(a) < SizeClass(b)
  \/ /\ SizeClass(a) = SizeClass(b)
     /\ CASE SizeClass(a) = 0 -> StandardIndex(a) <= StandardIndex(b)
          [] SizeClass(a) = 1 -> EmbeddedInteger(a) <= EmbeddedInteger(b)
          [] OTHER -> StrLeq(a, b)

\* The labels of the tokens of a size list.
LabelsOf(sizes_list) ==
  SetOf(Labels(ParseAll(StripNonEmpty(Split(sizes_list, ",")))))

InClassOrder(sorted, sizes_list) ==
  /\ SetOf(sorted) = LabelsOf(sizes_list)
  /\ Len(sorted) = Cardinality(LabelsOf(sizes_list))
  /\ \A i, j \in DOMAIN sorted : i < j => MayPrecede(sorted[i], sorted[j])

ExampleSorted ==
  << <<"S">>, <<"M">>, <<"X", "L">>, <<"1", "0">>, <<"X", "2", "0">>,
     <<"C", "u", "s", "t", "o", "m">> >>

SortCalls == {"sort_sizes_with_quantities", "app.sort_sizes_with_quantities"}

\* C11: the ordered label list of sort_sizes_with_quantities holds every
\* distinct label once, all Standard labels first in the order of the
\* standard list, then all Numeric labels in ascending order of their
\* integer, then all Custom labels in lexicographic order; the example list
\* gives [S, M, XL, 10, X20, Custom].
C11_ClassOrder ==
  call.fn \in SortCalls =>
    /\ InClassOrder(call.ret.sorted, call.arg)
    /\ call.arg = ExampleSizes => call.ret.sorted = ExampleSorted

\* The integer the token's right part parses to, when the token has
\* exactly one hyphen.
RightPart(token) == IntParse(Split(token, "-")[2])

ParseRules(token, ret) ==
  IF Lower(token) = CustomLower
    THEN ret = [size |-> CustomLabel, qty |-> 0]
  ELSE IF Count(token, "-") = 1 /\ RightPart(token).ok
    THEN ret = [size |-> Strip(Split(token, "-")[1]),
                qty |-> RightPart(token).v]
  ELSE ret = [size |-> token, qty |-> 0]

\* C12: parse_size_and_quantity returns for every token: ("Custom", 0)
\* when the trimmed token is "custom" in any case; (left part, integer)
\* when it has exactly one hyphen and the right part parses as an integer;
\* (the whole trimmed token, 0) otherwise; and the quantity is an integer
\* that is at least 0.
C12_ParseRules ==
  call.fn = "parse_size_and_quantity" =>
    /\ ParseRules(Strip(call.arg), call.ret)
    /\ call.ret.qty \in Nat

C12_Witness ==
  /\ call.fn = "parse_size_and_quantity"
  /\ Count(call.arg, "-") = 1
  /\ call.ret.qty > 0
  /\ call.ret.size # Split(Strip(call.arg), "-")[1]

(***************************************************************************)
(* Explosion: quantities, compare prices, handles and keys                 *)
(***************************************************************************)

\* The quantity the size cell of a source row gives for a label: that of
\* the last token with the label, 0 when there is none.
TokenQuantity(cell, label) ==
  Get(QuantityMap(ParseAll(StripNonEmpty(Split(clean_value(cell), ",")))),
      label, 0)

\* The quantity resolution policy of the configuration.
ResolvedQuantity(cfg, q) ==
  IF cfg.bulk_qty_mode THEN cfg.bulk_qty
  ELSE IF q > 0 THEN q
  ELSE cfg.default_qty

\* What the policy gives the variant of an exploded row.
PolicyQuantity(row) ==
  ResolvedQuantity(config, TokenQuantity(upload.rows[row.src].size,
                                         row.sizes_list))

\* The key under which the stores are seeded for an exploded row.
SeedKey(row) ==
  KeyStr(clean_str(row.sizes_list), clean_str(row.colours_list),
         clean_value(row.title))

SeededQuantity(i) ==
  Get(session.vq, SeedKey(session.df[i]), config.default_qty)

TokenQuantityOf(i) ==
  TokenQuantity(upload.rows[session.df[i].src].size, session.df[i].sizes_list)

CompareCellOf(row) == upload.rows[row.src].compare

\* The cell holds a valid number that is at least 0.
ValidCompare(cell) == CellFloat(cell).ok /\ CellFloat(cell).v >= 0

\* C14: an exploded row's uploaded_compare_price is exactly the compare
\* price of its source row when that is a valid number >= 0, zero
\* included, and the configured default only when the value is absent,
\* blank, non-numeric or negative (bulk compare price mode aside).
C14_UploadedComparePrice ==
  (session.has_df /\ ~config.bulk_compare_price_mode) =>
    \A i \in DOMAIN session.df :
      session.df[i].uploaded_compare_price
        = (IF ValidCompare(CompareCellOf(session.df[i]))
           THEN CellFloat(CompareCellOf(session.df[i])).v
           ELSE config.default_compare_price)

\* The text of a cell, "" when the cell is blank.
TextOf(cell) == IF cell.t = "str" THEN cell.s ELSE <<>>

\* slug: drop what is not a word character, whitespace or hyphen; one
\* hyphen for each whitespace run; lowercase; one hyphen for repeated
\* hyphens; no hyphen at either end.
Slug(s) ==
  StripHyphens(CollapseHyphens(Lower(SpacesToHyphen(RemoveNonSlug(s)))))

SlugOfPair(title, sku) ==
  Slug(Strip(TextOf(title)) \o <<"-">> \o Strip(TextOf(sku)))

CoolTitle ==
  <<"C", "o", "o", "l", " ", "S", "h", "i", "r", "t", "!", "!">>

CoolHandle ==
  <<"c", "o", "o", "l", "-", "s", "h", "i", "r", "t", "-",
    "a", "b", "c", "-", "1", "2", "3">>

\* C15: the Handle of every variant row is slug(trimmed title + "-" +
\* trimmed SKU); rows exploded from the same (title, sku) pair carry the
\* same Handle; title "Cool Shirt!!" with sku "ABC 123" gives
\* "cool-shirt-abc-123".
C15_HandleIsSlug ==
  session.has_df =>
    /\ \A i \in DOMAIN session.df :
         /\ session.df[i].Handle
              = SlugOfPair(session.df[i].title, session.df[i].sku)
         /\ session.df[i].title = Str(CoolTitle)
              => session.df[i].Handle = CoolHandle
    /\ \A i, j \in DOMAIN session.df :
         (/\ session.df[i].title = session.df[j].title
          /\ session.df[i].sku = session.df[j].sku)
           => session.df[i].Handle = session.df[j].Handle

\* C16: for every variant row the key "size|color|title" under which its
\* overrides are seeded is the key its overrides are looked up with when
\* the output is assembled (the _variant_key column of both programs, and
\* the key app.py builds for the rows of a group), also when the title,
\* the size or the colour is blank.
C16_KeyStability ==
  AssembledRun =>
    \A i \in DOMAIN session.df :
      /\ session.df[i].vkey = SeedKey(session.df[i])
      /\ impl = "app" => EmitKeyOfRow(session.df[i]) = SeedKey(session.df[i])

(***************************************************************************)
(* The AI fallback                                                         *)
(***************************************************************************)

\* C17: whenever the AI call of a row raises in simple or full mode, the
\* row's result is (the original description text, "") and no exception
\* leaves the loop: the batch goes on with the next row.
C17_AiFallback ==
  \A k \in DOMAIN ai.calls :
    ai.calls[k] = "raise" =>
      /\ k \in DOMAIN ai.descs
      /\ ai.descs[k] = clean_str(ai.texts[k])
      /\ ai.tags[k] = <<>>

(***************************************************************************)
(* The output carries no NaN                                               *)
(***************************************************************************)

\* The source row an assembled row comes from.
SourceOf(j) == upload.rows[RowOf(j).src]

Missing(cell) == cell.t = "nan"

\* The text holds "nan" or "NaN" somewhere (no cell of the uploads does).
HoldsNan(text) ==
  \E i \in 1..(Len(text) - 2) :
    SubSeq(text, i, i + 2) \in {NanText, <<"N", "a", "N">>}

TextFields(o) == {o.Handle, o.Title, o.Option1Value, o.Option2Value, o.SKU}

\* No text field of the row carries "nan" and no number of it is NaN.
NanFree(o) ==
  /\ \A text \in TextFields(o) : ~HoldsNan(text)
  /\ NaNv \notin {o.Qty, o.Compare, o.Price, o.PriceRem}

\* A field whose source cell is missing is "" (text) or 0 (the price).
BlankWhereMissing(o, source) ==
  /\ Missing(source.title) => o.Title = <<>>
  /\ Missing(source.sku) => o.SKU = <<>>
  /\ Missing(source.size) => o.Option1Value = <<>>
  /\ Missing(source.colour) => o.Option2Value = <<>>
  /\ Missing(source.price) => o.Price = 0 /\ o.PriceRem = 0

\* C18: for every source row, rows with a missing title, price, size or
\* colour included, no field of an emitted row is NaN or the text "nan"
\* of a missing value: the text fields are "" and the price is 0.
C18_NoNaN ==
  AssembledRun =>
    \A j \in DOMAIN out :
      NanFree(out[j]) /\ BlankWhereMissing(out[j], SourceOf(j))

(***************************************************************************)
(* The Published flag                                                      *)
(***************************************************************************)

ActiveText == <<"a", "c", "t", "i", "v", "e">>

\* The published field of a source row as the upload maps it: the cleaned
\* (trimmed) text of the cell, "" when the cell is blank or no column is
\* mapped to the field.
PublishedField(source) ==
  IF upload.pub_col THEN Strip(TextOf(source.pub)) ELSE <<>>

\* The first assembled row of the group of Handle h.
IsFirstOf(j, h) == \A x \in GroupOut(h) : j <= x

Mapped == call.fn = "intelligent_column_mapper"

\* The mapping returned gives every standard name of the pass the column
\* the pass gave it.
KeptFrom(pass, enhanced_mapping) ==
  \A k \in DOMAIN pass : enhanced_mapping[k] = pass[k]

\* The pass fills only standard names and uses only columns that the
\* passes before it have left.
FillsOnly(pass, before) ==
  /\ DOMAIN pass \cap DOMAIN before = {}
  /\ MappedColumns(pass) \cap MappedColumns(before) = {}

\* C20: a canonical field mapped by the exact pass or by the fuzzy pass is
\* never remapped by a later pass; the fuzzy pass fills only canonical
\* fields the exact pass left unmapped, the content pass only fields
\* unmapped after both, and each uses only source columns not yet used.
C20_PassPrecedence ==
  Mapped =>
    /\ KeptFrom(call.ret.exact, call.ret.enhanced_mapping)
    /\ KeptFrom(call.ret.fuzzy, call.ret.enhanced_mapping)
    /\ FillsOnly(call.ret.fuzzy, call.ret.exact)
    /\ FillsOnly(call.ret.content, Update(call.ret.exact, call.ret.fuzzy))

\* The part of C20 about the exact pass: what it maps stays as it mapped
\* it, and the later passes fill other fields from other columns.
C20_ExactKept ==
  Mapped =>
    /\ KeptFrom(call.ret.exact, call.ret.enhanced_mapping)
    /\ FillsOnly(call.ret.fuzzy, call.ret.exact)
    /\ FillsOnly(call.ret.content, call.ret.exact)
    /\ MappedColumns(call.ret.content) \cap MappedColumns(call.ret.fuzzy) = {}

(***************************************************************************)
(* Fuzzy pass selection                                                    *)
(***************************************************************************)

\* The columns the exact pass left: those the fuzzy pass looks at.
LeftByExact ==
  Unmapped(call.arg, MappedColumns(call.ret.exact))

\* The synonyms of a standard name in the table of the fuzzy pass.
SynonymsOf(standard_name) ==
  (CHOOSE i \in DOMAIN COLUMN_MAPPING_VARIANTS :
     COLUMN_MAPPING_VARIANTS[i].name = standard_name)

\* The similarities of a column's name to the synonyms of a standard name.
ScoresOf(col, standard_name) ==
  {calculate_similarity(Lower(col.name), Lower(variant)) :
     variant \in SetOf(COLUMN_MAPPING_VARIANTS[SynonymsOf(standard_name)].variants)}

\* One of the column's pairs with the standard name scores above x.
ScoresAbove(col, standard_name, x) ==
  \E score \in ScoresOf(col, standard_name) : Gt(score, x)

\* The score the fuzzy pass mapped the standard name with.
MappedScore(standard_name) ==
  call.ret.fuzzy_confidence[call.ret.fuzzy[standard_name]]

\* C21: the column the fuzzy pass maps a canonical field to is the one of
\* the highest similarity among the pairs of the field that score above
\* 0.7: no column the exact pass left scores higher on the field than the
\* column the field ends with.
C21_FuzzyHighest ==
  Mapped =>
    \A standard_name \in DOMAIN call.ret.fuzzy :
      \A i \in DOMAIN LeftByExact :
        ~ScoresAbove(LeftByExact[i], standard_name,
                     MappedScore(standard_name))

\* The part of C21 that holds: the field a column is given is the field of
\* the column's own best pair, and that pair scores above 0.7.
C21_OwnBest ==
  Mapped =>
    \A standard_name \in DOMAIN call.ret.fuzzy :
      /\ Gt(MappedScore(standard_name), Frac(7, 10))
      /\ \A other \in {COLUMN_MAPPING_VARIANTS[i].name :
                         i \in DOMAIN COLUMN_MAPPING_VARIANTS}
                       \ DOMAIN call.ret.exact :
           \A i \in DOMAIN LeftByExact :
             LeftByExact[i].name = call.ret.fuzzy[standard_name]
               => ~ScoresAbove(LeftByExact[i], other,
                               MappedScore(standard_name))

(***************************************************************************)
(* C22.  Seed semantics.                                                   *)
(***************************************************************************)

\* The last run seeded the stores: "Start Processing" in app.py,
\* initialize_variants in DataProcessor.
SeedingRun ==
  /\ status # "error"
  /\ \/ impl = "app" /\ last.op = "process"
     \/ impl = "dp" /\ last.op = "initialize"

\* Every variant key of the session is in both stores.
AllSeeded ==
  \A i \in DOMAIN session.uv :
    /\ KeyOf(session.uv[i]) \in DOMAIN session.vq
    /\ KeyOf(session.uv[i]) \in DOMAIN session.vcp

\* A key the stores held before the run keeps its values.
PriorKept ==
  /\ \A k \in DOMAIN prev.vq : k \in DOMAIN session.vq => session.vq[k] = prev.vq[k]
  /\ \A k \in DOMAIN prev.vcp : k \in DOMAIN session.vcp => session.vcp[k] = prev.vcp[k]

\* A key the stores lacked before the run holds the extracted quantity if
\* positive, else the default, and the uploaded compare price, else the
\* default.
FreshSeeded ==
  \A i \in DOMAIN session.uv :
    LET k == KeyOf(session.uv[i]) IN
      /\ k \notin DOMAIN prev.vq /\ k \in DOMAIN session.vq
           => session.vq[k] = DpQtyOr(Get(session.exq, k, 0), config.default_qty)
      /\ k \notin DOMAIN prev.vcp /\ k \in DOMAIN session.vcp
           => session.vcp[k] = Get(session.exc, k, config.default_compare_price)

\* C22: after seeding, every distinct variant key of the variant rows is in
\* both stores.
C22_SeedSemantics == SeedingRun => AllSeeded

\* What initialize_variants of DataProcessor does: every key is present, a
\* key present before keeps its values, a new key gets the extracted
\* values or the defaults.
C22_DpSeed ==
  impl = "dp" /\ last.op = "initialize"
    => AllSeeded /\ PriorKept /\ FreshSeeded

(***************************************************************************)
(* C23.  The order of the rows of a Handle group.                          *)
(***************************************************************************)

\* The dataframe row an output row was built from.
DfRow(i) == session.df[out[i].row]

SameGroup(i, j) == DfRow(i).Handle = DfRow(j).Handle

\* The Size Sorter's ordering of the distinct size labels of the group of
\* output row i.
GroupOrdering(i) ==
  LET sizes == SizesString(session.df, GroupRows(session.df, DfRow(i).Handle))
  IN  IF impl = "app" THEN sort_sizes(sizes)
      ELSE sort_sizes_with_quantities(sizes).sorted

Found(ordering, size) == \E x \in DOMAIN ordering : ordering[x] = size

\* The place of a size label in the ordering; a label that is not in it
\* counts as one place past the end.
SizeOrderIndex(ordering, size) ==
  IF Found(ordering, size)
  THEN CHOOSE x \in DOMAIN ordering : ordering[x] = size
  ELSE Len(ordering) + 1

\* (size_order_index, colour) of row a is not greater than that of row b.
NotAfter(ordering, a, b) ==
  \/ SizeOrderIndex(ordering, a.sizes_list) < SizeOrderIndex(ordering, b.sizes_list)
  \/ /\ SizeOrderIndex(ordering, a.sizes_list) = SizeOrderIndex(ordering, b.sizes_list)
     /\ ~StrLess(b.colours_list, a.colours_list)

Ascending(i, ordering) ==
  \A j \in DOMAIN out :
    i < j /\ SameGroup(i, j) => NotAfter(ordering, DfRow(i), DfRow(j))

\* C23: within each Handle group the output rows are in ascending order of
\* (size_order_index, colour label); a size label the ordering lacks comes
\* after every label it has.
C23_GroupOrder ==
  status = "ok" => \A i \in DOMAIN out : Ascending(i, GroupOrdering(i))

SizeFound(i) == Found(GroupOrdering(i), DfRow(i).sizes_list)

SizeIndexOf(i) == SizeOrderIndex(GroupOrdering(i), DfRow(i).sizes_list)

\* A group whose rows were reordered by size and by colour.
C23_Witness ==
  /\ status = "ok"
  /\ \E i \in DOMAIN out : \E j \in DOMAIN out : \E k \in DOMAIN out :
       /\ i < j /\ j < k /\ SameGroup(i, j) /\ SameGroup(j, k)
       /\ out[i].row > out[j].row
       /\ SizeIndexOf(i) = SizeIndexOf(j)
       /\ SizeIndexOf(j) < SizeIndexOf(k)

\* A group that holds a size label the ordering lacks, after one it has.
C23_Sentinel ==
  /\ status = "ok"
  /\ \E i \in DOMAIN out : \E j \in DOMAIN out :
       /\ i < j /\ SameGroup(i, j) /\ SizeFound(i) /\ ~SizeFound(j)
       /\ out[i].row > out[j].row

(***************************************************************************)
(* C24.  Size deduplication.                                               *)
(***************************************************************************)

\* The parsed tokens of a size list, in token order.
ParsedTokens(sizes_list) == ParseAll(StripNonEmpty(Split(sizes_list, ",")))

FirstOccurrence(parsed, label) ==
  CHOOSE n \in DOMAIN parsed :
    /\ parsed[n].size = label
    /\ \A m \in DOMAIN parsed : parsed[m].size = label => n <= m

LastOccurrence(parsed, label) ==
  CHOOSE n \in DOMAIN parsed :
    /\ parsed[n].size = label
    /\ \A m \in DOMAIN parsed : parsed[m].size = label => m <= n

\* Two labels the standard list ranks alike ("xl" and "XL").
SameRank(a, b) == StandardIndex(a) >= 0 /\ StandardIndex(a) = StandardIndex(b)

Deduplicated(parsed, ret) ==
  /\ \A i, j \in DOMAIN ret.sorted : ret.sorted[i] = ret.sorted[j] => i = j
  /\ SetOf(ret.sorted) = {parsed[n].size : n \in DOMAIN parsed}
  /\ \A i, j \in DOMAIN ret.sorted :
       i < j /\ SameRank(ret.sorted[i], ret.sorted[j])
         => FirstOccurrence(parsed, ret.sorted[i])
              < FirstOccurrence(parsed, ret.sorted[j])
  /\ \A i \in DOMAIN ret.sorted :
       /\ ret.sorted[i] \in DOMAIN ret.qmap
       /\ ret.qmap[ret.sorted[i]]
            = parsed[LastOccurrence(parsed, ret.sorted[i])].qty

\* C24: the ordered label list holds each distinct parsed label exactly
\* once, labels of one rank in the order of their first occurrence; every
\* label of the list has an entry in the quantity map, and for a repeated
\* label the map holds the quantity of its last occurrence.
C24_Deduplication ==
  call.fn \in SortCalls => Deduplicated(ParsedTokens(call.arg), call.ret)

Repeated(parsed) ==
  \E m, n \in DOMAIN parsed :
    m < n /\ parsed[m].size = parsed[n].size /\ parsed[m].qty # parsed[n].qty

\* A sorted list with a label that came twice with two quantities.
C24_Witness == call.fn \in SortCalls /\ Repeated(ParsedTokens(call.arg))

\* A sorted list with two labels of one rank, the later one first in the
\* alphabet.
C24_FirstOccurrence ==
  /\ call.fn \in SortCalls
  /\ \E i, j \in DOMAIN call.ret.sorted :
       /\ i < j /\ SameRank(call.ret.sorted[i], call.ret.sorted[j])
       /\ StrLess(call.ret.sorted[j], call.ret.sorted[i])

(***************************************************************************)
(* C25.  Size classification.                                              *)
(***************************************************************************)

\* The bucket a copy of the sorter puts a label in: 0 Standard, 1 Numeric,
\* 2 Custom.
BucketOf(fn, label) ==
  IF IsStandard(label) THEN 0
  ELSE IF IsNumeric(label, fn = "app.sort_sizes_with_quantities") THEN 1
  ELSE 2

X10A == <<"X", "1", "0", "A">>

\* C25: a label is Standard iff it equals a member of the standard set
\* ignoring case; otherwise Numeric iff it consists only of digits or is
\* the letter X (either case) followed only by digits; otherwise Custom;
\* "X10A" is Custom.
C25_Classification ==
  call.fn \in SortCalls =>
    \A i \in DOMAIN call.ret.sorted :
      BucketOf(call.fn, call.ret.sorted[i]) = SizeClass(call.ret.sorted[i])

\* What shows in the returned list: "X10A" never stands before a label of
\* digits.
C25_X10AIsCustom ==
  call.fn \in SortCalls =>
    \A i, j \in DOMAIN call.ret.sorted :
      call.ret.sorted[i] = X10A /\ IsAllDigits(call.ret.sorted[j]) => j < i

\* The copy of app.py classifies as the claim says.
C25_AppClassification ==
  call.fn = "app.sort_sizes_with_quantities" =>
    \A i \in DOMAIN call.ret.sorted :
      BucketOf(call.fn, call.ret.sorted[i]) = SizeClass(call.ret.sorted[i])

(***************************************************************************)
(* C26.  The two copies of the Size Sorter.                                *)
(***************************************************************************)

\* C26: helpers/utils.sort_sizes_with_quantities and
\* app.sort_sizes_with_quantities return the same ordered label list and
\* the same quantity map for every size list.
C26_CopiesAgree ==
  /\ call.fn = "sort_sizes_with_quantities"
       => call.ret = app_sort_sizes_with_quantities(call.arg)
  /\ call.fn = "app.sort_sizes_with_quantities"
       => call.ret = sort_sizes_with_quantities(call.arg)

\* The copies return the same quantity map, and the same labels in some
\* order.
C26_SameLabelsAndMap ==
  call.fn \in SortCalls =>
    /\ call.ret.qmap = sort_sizes_with_quantities(call.arg).qmap
    /\ call.ret.qmap = app_sort_sizes_with_quantities(call.arg).qmap
    /\ SetOf(call.ret.sorted)
         = SetOf(sort_sizes_with_quantities(call.arg).sorted)
    /\ SetOf(call.ret.sorted)
         = SetOf(app_sort_sizes_with_quantities(call.arg).sorted)

(***************************************************************************)
(* C27.  Parsing a label again.                                            *)
(***************************************************************************)

\* The copy of the sorter a call ran.
SorterOf(fn, sizes_list) ==
  IF fn = "app.sort_sizes_with_quantities"
  THEN app_sort_sizes_with_quantities(sizes_list)
  ELSE sort_sizes_with_quantities(sizes_list)

\* ','.join(labels) given to the sorter again yields every label.
YieldsEvery(fn, labels) ==
  SetOf(labels) \subseteq SetOf(SorterOf(fn, Join(labels, ",")).sorted)

\* C27: parsing the label that parse_size_and_quantity returned gives the
\* same label with quantity 0, and the Size Sorter run again over the
\* labels it returned yields every one of them.
C27_Idempotent ==
  /\ call.fn = "parse_size_and_quantity"
       => parse_size_and_quantity(call.ret.size)
            = [size |-> call.ret.size, qty |-> 0]
  /\ call.fn \in SortCalls => YieldsEvery(call.fn, call.ret.sorted)

\* The same for the tokens whose left part is not the word "custom".
C27_UnlessCustom ==
  /\ call.fn = "parse_size_and_quantity" /\ Lower(call.ret.size) # CustomLower
       => parse_size_and_quantity(call.ret.size)
            = [size |-> call.ret.size, qty |-> 0]
  /\ (/\ call.fn \in SortCalls
      /\ \A i \in DOMAIN call.ret.sorted :
           Lower(call.ret.sorted[i]) # CustomLower)
       => YieldsEvery(call.fn, call.ret.sorted)

(***************************************************************************)
(* C28.  The variant-level fields of first and later rows.                 *)
(***************************************************************************)

\* Option1 Value, Variant Price, Variant Compare At Price, Variant
\* Inventory Qty of an output row.
VariantFields(r) == <<r.Option1Value, r.Price, r.PriceRem, r.Compare, r.Qty>>

\* What the row would carry were it the first of its group.
AsFirstRow(i) == create_main_product_row(DfRow(i), out[i].row)

Generated == impl = "dp" /\ last.op = "generate" /\ status = "ok"

\* C28: in generate_shopify_csv the variant-level fields of a row are the
\* same function of the row whether it is the first of its Handle group or
\* a later one; with surcharges enabled the surcharged price is emitted in
\* later rows too.
C28_SameVariantFields ==
  Generated =>
    \A i \in DOMAIN out : VariantFields(out[i]) = VariantFields(AsFirstRow(i))

\* With surcharges switched off the fields agree.
C28_WithoutSurcharge ==
  Generated /\ ~config.enable_surcharge =>
    \A i \in DOMAIN out : VariantFields(out[i]) = VariantFields(AsFirstRow(i))

(***************************************************************************)
(* C29.  A second file in the same session.                                *)
(***************************************************************************)

KeySet(uv) == {KeyOf(uv[i]) : i \in DOMAIN uv}

\* What "Start Processing" gives in a session that holds nothing.
FreshApp ==
  AppRun(EmptySession, upload, config, [NoEvent EXCEPT !.op = "process"])

\* process_data on the upload.
Exploded == ExplodeDP(MappedRows(upload), Len(upload.rows), config)

\* process_data and initialize_variants in a session that holds nothing.
FreshDp ==
  initialize_variants([EmptySession EXCEPT !.has_df = TRUE, !.df = Exploded],
                      DpVariants(Exploded), config)

\* What generate_shopify_csv returns for session S.
WouldEmit(S) == DpEmit(DpMapped(S, config))

\* The session was processed and initialised on the upload it now has.
DpProcessed ==
  impl = "dp" /\ last.op = "initialize" /\ session.df = Exploded

\* C29: after processing again in the same session, the variant keys in
\* use are those of the newly processed table, and what is emitted holds
\* no quantity or compare price of the earlier run: keys and output are
\* those of a fresh session.
C29_SeededAfresh ==
  /\ impl = "app" /\ last.op = "process" =>
       /\ KeySet(session.uv) = KeySet(FreshApp.session.uv)
       /\ out = FreshApp.out
  /\ DpProcessed =>
       /\ KeySet(session.uv) = KeySet(FreshDp.uv)
       /\ WouldEmit(session) = WouldEmit(FreshDp)

\* DataProcessor lists the variant keys of the new table.
C29_DpKeysFresh == DpProcessed => session.uv = FreshDp.uv

\* Each program taken alone.
C29_App ==
  impl = "app" /\ last.op = "process" =>
    KeySet(session.uv) = KeySet(FreshApp.session.uv) /\ out = FreshApp.out

C29_Dp == DpProcessed => WouldEmit(session) = WouldEmit(FreshDp)

(***************************************************************************)
(* C30.  Overrides of different products.                                  *)
(***************************************************************************)

\* The Handles with a row that is not the same in the two outputs.
ChangedHandles(before, after) ==
  {before[i].Handle :
     i \in {j \in DOMAIN before : j \notin DOMAIN after \/ before[j] # after[j]}}

\* An edit of one variant in app.py: the output of the run against the
\* output of the run before.
AppEdited ==
  /\ impl = "app"
  /\ last'.op \in {"form", "sheet"}
  /\ status = "ok" /\ status' = "ok"

\* An edit of one variant in the editor of UIComponents: what
\* generate_shopify_csv returns after it against what it returned before.
DpEdited == impl = "dp" /\ last'.op = "edit"

OneHandleChanges ==
  /\ AppEdited => Cardinality(ChangedHandles(out, out')) <= 1
  /\ DpEdited =>
       Cardinality(ChangedHandles(WouldEmit(session), WouldEmit(session'))) <= 1

\* C30: an edit of one variant changes only rows of that variant's own
\* Handle, even when another product has the same title, size and colour
\* and another SKU: the rows an edit changes are of one Handle.
C30_Independent == [][OneHandleChanges]_vars

C30_App == [][AppEdited => Cardinality(ChangedHandles(out, out')) <= 1]_vars

C30_Dp ==
  [][DpEdited =>
       Cardinality(ChangedHandles(WouldEmit(session), WouldEmit(session'))) <= 1]_vars

====
